---- MODULE Spec2Model ----
(***************************************************************************)
(* Xrand: the randomness pool of rngw32.c (pool, collector, fast-poll      *)
(* thread, fetch, start/stop) as a state machine.                          *)
(*                                                                         *)
(* Threads: the application threads in Callers, which call the public API, *)
(* and the background fast-poll thread created by RandPoolInit.  The       *)
(* low-level mouse/keyboard hooks run on the thread that installed them,   *)
(* inside its message loop in AddUserEvents.                               *)
(*                                                                         *)
(* Start and stop create and destroy the pool, the critical section and    *)
(* the thread ("There can be only a single active instance"), so a caller  *)
(* begins RandPoolInit/RandCleanStop only while no other call is in        *)
(* flight, and no call begins while one of them is in flight.  One         *)
(* thread, MainThread, makes the lifecycle calls (RngStart, RngStop,       *)
(* RngEnableUserEvents); every thread mixes and fetches.  The threads are  *)
(* interchangeable for the program, so Worker begins a call only while     *)
(* MainThread is inside one.                                               *)
(*                                                                         *)
(* Specifications: Spec and FairSpec are the pool with all its threads;    *)
(* CollectorSpec is the collector of a started pool alone; DrbgSpec is one *)
(* DRBG (ctr_drbg.c, hash_drbg.c or hmac_drbg.c) under the calls of its    *)
(* owner; TriviumSpec is the stream generator of trivium.c, which takes    *)
(* its seeds from the started pool; AddIntSpec is hash_drbg_add_int, the   *)
(* big-endian addition of hash_drbg.c, on all operands of a small size.    *)
(***************************************************************************)
EXTENDS Integers, Sequences, FiniteSets, TLC

(***************************************************************************)
(* Sizes.  The program has RNG_POOL_MIX_INTERVAL = 32,                     *)
(* SHA512_DIGEST_LENGTH = 64 and RNG_POOL_SIZE = 384 = 6 * 64; the model   *)
(* keeps the ratios (digest = 2 * interval, pool = chunks * digest) at a   *)
(* smaller scale.                                                          *)
(***************************************************************************)
RNG_POOL_MIX_INTERVAL == 2

RNG_POOL_CHUNKS == 2

SHA512_DIGEST_LENGTH == RNG_POOL_MIX_INTERVAL + RNG_POOL_MIX_INTERVAL

RNG_POOL_SIZE == RNG_POOL_CHUNKS * SHA512_DIGEST_LENGTH

\* nUserEventsAdded > 256 in MouseProc/KeyboardProc, scaled
USER_EVENTS_LIMIT == 1

\* Number of API calls the application makes in one run
MaxCalls == 3

\* Number of polls the background thread makes in one run
MaxFastPolls == 1

\* The environment departs from the nominal run (a load, an allocation, a
\* poll or a hook fails, fresh memory is not zero) at most this often in a run
MaxFaults == 1

\* Number of physical drives the disk loop of the slow poll can open
MaxDrives == 1

Callers == {"c1", "c2"}
\* The application thread that starts and stops the generator
MainThread == "c1"
\* Another thread of the application
Worker == "c2"

FP == "fp"

NULL == "NULL"

\* pRandPool when it is NULL, and when it points to a block already freed
NO_POOL == <<>>

DANGLING == <<-1>>

(***************************************************************************)
(* Bytes                                                                   *)
(***************************************************************************)
Byte == 0 .. 255

RECURSIVE XorBits(_, _, _)
XorBits(a, b, n) ==
  IF n = 0 THEN 0
  ELSE (((a % 2) + (b % 2)) % 2) + 2 * XorBits(a \div 2, b \div 2, n - 1)

\* x ^ y on uint8_t
BXor(a, b) == XorBits(a % 256, b % 256, 8)

\* The byte values the probes and the digest are drawn from (closed under ^)
Alphabet == <<0, 90, 165, 255>>

RECURSIVE WeightedSum(_, _)
WeightedSum(msg, i) ==
  IF i = 0 THEN 0 ELSE i * msg[i] + WeightedSum(msg, i - 1)

\* SHA512(msg, len, out): an external primitive; a deterministic function of
\* the whole message giving SHA512_DIGEST_LENGTH bytes.
SHA512(msg) ==
  LET w == WeightedSum(msg, Len(msg)) + Len(msg)
  IN SubSeq([j \in 1 .. SHA512_DIGEST_LENGTH |->
               Alphabet[((w + 3 * j) % 4) + 1]],
            1, SHA512_DIGEST_LENGTH)

(***************************************************************************)
(* The pool: pure functions of (pool bytes, write cursor)                  *)
(***************************************************************************)
ZeroPool == SubSeq([i \in 1 .. RNG_POOL_SIZE |-> 0], 1, RNG_POOL_SIZE)

\* One iteration of the loop of RandPoolMix: hash the entire pool, add the
\* digest to the block that starts at offset i.
MixBlock(p, i) ==
  LET buf == SHA512(p)
  IN SubSeq([k \in 1 .. RNG_POOL_SIZE |->
               IF k > i /\ k <= i + SHA512_DIGEST_LENGTH
               THEN BXor(p[k], buf[k - i]) ELSE p[k]],
            1, RNG_POOL_SIZE)

RECURSIVE MixFrom(_, _)
MixFrom(p, i) ==
  IF i >= RNG_POOL_SIZE THEN p
  ELSE MixFrom(MixBlock(p, i), i + SHA512_DIGEST_LENGTH)

\* A mix that hashes the pool once and adds that digest to every block
RandPoolMixOneDigest(p) ==
  LET buf == SHA512(p)
  IN SubSeq([k \in 1 .. RNG_POOL_SIZE |->
               BXor(p[k], buf[((k - 1) % SHA512_DIGEST_LENGTH) + 1])],
            1, RNG_POOL_SIZE)

RandPoolMix(p) == MixFrom(p, 0)

\* A byte overwrites the byte at the write cursor
AddByteOverwrites(s, x) ==
  LET p1 == IF s.wpos % RNG_POOL_MIX_INTERVAL = 0
            THEN RandPoolMix(s.pool) ELSE s.pool
      w1 == IF s.wpos = RNG_POOL_SIZE THEN 0 ELSE s.wpos
  IN [pool |-> [p1 EXCEPT ![w1 + 1] = x % 256],
      wpos |-> w1 + 1]

\* A byte is added with a mix only when the write cursor is at an end of the
\* pool
AddByteMixesAtWrap(s, x) ==
  LET p1 == IF s.wpos % RNG_POOL_SIZE = 0
            THEN RandPoolMix(s.pool) ELSE s.pool
      w1 == IF s.wpos = RNG_POOL_SIZE THEN 0 ELSE s.wpos
  IN [pool |-> [p1 EXCEPT ![w1 + 1] = BXor(@, x % 256)],
      wpos |-> w1 + 1]

\* AddByte(x) on the record [pool, wpos]
AddByte(s, x) ==
  LET p1 == IF s.wpos % RNG_POOL_MIX_INTERVAL = 0
            THEN RandPoolMix(s.pool) ELSE s.pool
      w1 == IF s.wpos = RNG_POOL_SIZE THEN 0 ELSE s.wpos
  IN [pool |-> [p1 EXCEPT ![w1 + 1] = BXor(@, x % 256)],
      wpos |-> w1 + 1]

RECURSIVE AddBufFrom(_, _, _)
AddBufFrom(s, buf, i) ==
  IF i > Len(buf) THEN s
  ELSE AddBufFrom(AddByte(s, buf[i]), buf, i + 1)

AddBuf(s, buf) == AddBufFrom(s, buf, 1)

\* Add32(x): the four bytes of x, least significant first
Add32(s, x) ==
  AddByte(AddByte(AddByte(AddByte(s, x), x \div 256), x \div 65536),
          x \div 16777216)

\* Invert the pool: every 32-bit word ^ 0xffffffff
InvertPool(p) ==
  SubSeq([k \in 1 .. RNG_POOL_SIZE |-> BXor(p[k], 255)], 1, RNG_POOL_SIZE)

(***************************************************************************)
(* State                                                                   *)
(***************************************************************************)
VARIABLES
  pRandPool,                     \* NO_POOL, DANGLING or the pool bytes
  nCurrentPoolWritePos,
  nCurrentPoolReadPos,
  hPeriodicFastPollThreadHandle,
  bStrictChecksEnabled,
  bUserEventsEnabled,
  bDidRandPoolInit,
  bDidSlowPoll,
  bIsWin32CngAvailable,
  hBCrypt,
  hBCryptProv,
  hWinNativeApi,
  hIpHlpApi,
  hNetApi32,
  nUserEventsAdded,
  hMouseHook,
  hKbdHook,
  randCritSec,                   \* [owner, count]: a recursive lock
  bTerminateFastPollThread,
  bAddedStartupInfo,             \* static of RandSlowPoll
  fpPc,                          \* position of the fast-poll thread
  pc,                            \* position of each application thread
  loc,                           \* arguments, locals and result of its call
  alive,                         \* FALSE once the process was terminated
  nPolls,
  nFaults,
  nAdded,                        \* bytes added to the pool, collector alone
  nSinceMix,                     \* bytes added to the pool since its last mix
  drbg,                          \* the state struct of the DRBG under study
  call,                          \* its last call: arguments, status, output
  nGenerated,                    \* successful generates since its last
                                 \* (re)seed, -1 before the first one
  instantiated,                  \* an init has succeeded on the state, and
                                 \* no clear since
  ctr,                           \* trivium.c: counter for the reseeding
  tv                             \* the TriviumRand call in progress, and
                                 \* what the stream generator has emitted

poolVars == <<pRandPool, nCurrentPoolWritePos, nCurrentPoolReadPos>>

flagVars == <<bStrictChecksEnabled, bUserEventsEnabled, bDidRandPoolInit,
              bDidSlowPoll, bIsWin32CngAvailable, bAddedStartupInfo>>

handleVars == <<hPeriodicFastPollThreadHandle, hBCrypt, hBCryptProv,
                hWinNativeApi, hIpHlpApi, hNetApi32>>

hookVars == <<nUserEventsAdded, hMouseHook, hKbdHook>>

\* Everything RandPoolInit, RandCleanStop and the pool functions own
rngVars == <<poolVars, flagVars, handleVars, hookVars, randCritSec,
             bTerminateFastPollThread, fpPc>>

\* What the pool does not own: the byte counts kept when the collector is
\* run alone, and the DRBG, which its caller owns
otherVars ==
  <<nAdded, nSinceMix, drbg, call, nGenerated, instantiated, ctr, tv>>

vars == <<rngVars, pc, loc, alive, nPolls, nFaults, otherVars>>

\* The caller's buffer before the call: whatever it held, never pool bytes
PriorData(len) == [i \in 1 .. len |-> 238]

NoLocals ==
  [op |-> "none", dataNull |-> FALSE, data |-> <<>>, len |-> 0,
   force |-> FALSE, ret |-> "void", inInit |-> FALSE,
   slowAtEntry |-> FALSE, snap1 |-> <<>>, snap2 |-> <<>>, passes |-> 0,
   steps |-> <<>>, foreign |-> {}, quit |-> FALSE, calls |-> 0,
   probes |-> <<>>]

FreeCritSec == [owner |-> NULL, count |-> 0]

\* The generator before RngStart
PoolNotStarted ==
  /\ pRandPool = NO_POOL
  /\ nCurrentPoolWritePos = 0
  /\ nCurrentPoolReadPos = 0
  /\ hPeriodicFastPollThreadHandle = NULL
  /\ bStrictChecksEnabled = FALSE
  /\ bUserEventsEnabled = FALSE
  /\ bDidRandPoolInit = FALSE
  /\ bDidSlowPoll = FALSE
  /\ bIsWin32CngAvailable = FALSE
  /\ hBCrypt = NULL
  /\ hBCryptProv = NULL
  /\ hWinNativeApi = NULL
  /\ hIpHlpApi = NULL
  /\ hNetApi32 = NULL
  /\ nUserEventsAdded = 0
  /\ hMouseHook = NULL
  /\ hKbdHook = NULL
  /\ randCritSec = FreeCritSec
  /\ bTerminateFastPollThread = FALSE
  /\ bAddedStartupInfo = FALSE
  /\ fpPc = "none"
  /\ pc = [c \in Callers |-> "idle"]
  /\ loc = [c \in Callers |-> NoLocals]
  /\ alive = TRUE
  /\ nPolls = 0
  /\ nFaults = 0

\* No DRBG is under study
Arg(null, len, tag) == [null |-> null, len |-> len, tag |-> tag]

NoArg == Arg(TRUE, 0, 0)

NoFault == [at |-> "none", f |-> "none"]

\* on is the state struct as the call found it
NoCall ==
  [op |-> "none", ret |-> 0, out |-> <<>>, fault |-> NoFault,
   entropy |-> NoArg, nonce |-> NoArg, addl |-> NoArg, output |-> NoArg,
   on |-> [alg |-> "none"]]

NoDrbg ==
  /\ drbg = [alg |-> "none"]
  /\ call = NoCall
  /\ nGenerated = -1
  /\ instantiated = FALSE

\* static s32 ctr = -1; no TriviumRand call yet.  pending is the width of the
\* call that waits for its seed and calls0 the calls made when it began;
\* bits counts the bits emitted since the last seed, seeds the seeds
NoTrivium ==
  /\ ctr = -1
  /\ tv = [pending |-> 0, calls0 |-> 0, bits |-> 0, seeds |-> 0]

Init ==
  /\ PoolNotStarted
  /\ nAdded = 0
  /\ nSinceMix = 0
  /\ NoDrbg
  /\ NoTrivium

(***************************************************************************)
(* The critical section                                                    *)
(***************************************************************************)
\* A critical section that excludes nobody
CanEnterAlways(t) == TRUE

\* EnterCriticalSection returns at once for the owner, and for anyone when
\* the section is free

CanEnter(t) == randCritSec.owner \in {NULL, t}

EnterCriticalSection(t) == [owner |-> t, count |-> randCritSec.count + 1]

LeaveCriticalSection(t) ==
  IF randCritSec.count = 1 THEN FreeCritSec
  ELSE [randCritSec EXCEPT !.count = @ - 1]

(***************************************************************************)
(* How calls begin and end                                                 *)
(***************************************************************************)
StopPcs == {"stop_enter", "stop_wait", "stop_close", "stop_zero", "stop_free"}

\* The calls made in this run
CallsMade == loc[MainThread].calls + loc[Worker].calls

\* c may begin a call that is not start or stop.  The threads of the
\* application are interchangeable: calls that follow one another come from
\* the main thread, and another thread calls while the main thread is in a
\* call.
CanCall(c) ==
  /\ alive
  /\ pc[c] = "idle"
  /\ CallsMade < MaxCalls
  /\ \A d \in Callers : pc[d] \notin StopPcs
  /\ c # MainThread => pc[MainThread] # "idle"

\* c may begin start or stop
CanCallLifecycle(c) ==
  /\ CanCall(c)
  /\ \A d \in Callers \ {c} : pc[d] = "idle"

\* c begins a call with the locals l; calls counts the calls c has made
Begin(c, l) ==
  /\ loc' = [loc EXCEPT ![c] = [l EXCEPT !.calls = loc[c].calls + 1]]

\* A step that meets a failure of the environment when b
Faulty(b) ==
  /\ b => nFaults < MaxFaults
  /\ nFaults' = IF b THEN nFaults + 1 ELSE nFaults

(***************************************************************************)
(* RandPoolInit / RngStart                                                 *)
(***************************************************************************)
\* What each step of RandPoolInit can meet
InitOutcomes ==
  {"ok", "no_memory", "no_lock", "no_bcrypt", "no_proc", "no_provider",
   "no_thread"}

\* _aligned_malloc does not clear the block it returns
FreshPools == {ZeroPool, [i \in 1 .. RNG_POOL_SIZE |-> Alphabet[(i % 4) + 1]]}

\* A second start that sets the cursors back
RandPoolInit_AgainResets(c) ==
  /\ bDidRandPoolInit
  /\ nCurrentPoolWritePos' = 0
  /\ nCurrentPoolReadPos' = 0
  /\ pc' = [pc EXCEPT ![c] = "idle"]
  /\ Begin(c, [NoLocals EXCEPT !.op = "init", !.ret = "TRUE",
                               !.steps = <<"again">>])
  /\ UNCHANGED <<pRandPool, flagVars, handleVars, hookVars, randCritSec,
                 bTerminateFastPollThread, fpPc, alive, nPolls, otherVars,
                 nFaults>>

\* if (bDidRandPoolInit) return TRUE;
RandPoolInit_Again(c) ==
  /\ bDidRandPoolInit
  /\ pc' = [pc EXCEPT ![c] = "idle"]
  /\ Begin(c, [NoLocals EXCEPT !.op = "init", !.ret = "TRUE",
                               !.steps = <<"again">>])
  /\ UNCHANGED <<rngVars, alive, nPolls, otherVars, nFaults>>

RandPoolInit_Fresh(c, o, fresh) ==
  /\ ~bDidRandPoolInit
  /\ Faulty(o # "ok" \/ fresh # ZeroPool)
  /\ nCurrentPoolWritePos' = 0
  /\ nCurrentPoolReadPos' = 0
  /\ randCritSec' = FreeCritSec
  /\ pRandPool' = CASE o = "no_memory" -> NO_POOL
                    [] o = "no_lock" -> DANGLING
                    [] OTHER -> fresh
  /\ bDidRandPoolInit' = (o \notin {"no_memory", "no_lock"})
  /\ hBCrypt' = CASE o \in {"no_memory", "no_lock"} -> hBCrypt
                  [] o = "no_bcrypt" -> NULL
                  [] OTHER -> "bcrypt.dll"
  /\ hBCryptProv' = IF o \in {"ok", "no_thread"} THEN "rng" ELSE hBCryptProv
  /\ bIsWin32CngAvailable' =
       IF o \in {"ok", "no_thread"} THEN TRUE ELSE bIsWin32CngAvailable
  /\ hPeriodicFastPollThreadHandle' =
       CASE o = "ok" -> "thread"
         [] o = "no_thread" -> NULL
         [] OTHER -> hPeriodicFastPollThreadHandle
  /\ fpPc' = IF o = "ok" THEN "ready" ELSE fpPc
  /\ IF o = "ok"
     THEN /\ pc' = [pc EXCEPT ![c] = "idle"]
          /\ Begin(c, [NoLocals EXCEPT !.op = "init", !.ret = "TRUE"])
     ELSE IF o \in {"no_memory", "no_lock"}
     THEN /\ pc' = [pc EXCEPT ![c] = "idle"]
          /\ Begin(c, [NoLocals EXCEPT !.op = "init", !.ret = "FALSE"])
     ELSE \* goto err: RandCleanStop(); return FALSE;
          /\ pc' = [pc EXCEPT ![c] = "stop_enter"]
          /\ Begin(c, [NoLocals EXCEPT !.op = "init", !.inInit = TRUE])
  /\ UNCHANGED <<bStrictChecksEnabled, bUserEventsEnabled, bDidSlowPoll,
                 bAddedStartupInfo, hWinNativeApi, hIpHlpApi, hNetApi32,
                 hookVars, bTerminateFastPollThread, alive, nPolls,
                 otherVars>>

RandPoolInit(c) ==
  /\ CanCallLifecycle(c)
  /\ \/ RandPoolInit_Again(c)
     \/ \E o \in InitOutcomes, fresh \in FreshPools :
          RandPoolInit_Fresh(c, o, fresh)

(***************************************************************************)
(* RandCleanStop / RngStop                                                 *)
(***************************************************************************)
\* if (!bDidRandPoolInit) return;
RandCleanStop_Call(c) ==
  /\ CanCallLifecycle(c)
  /\ IF bDidRandPoolInit
     THEN /\ pc' = [pc EXCEPT ![c] = "stop_enter"]
          /\ Begin(c, [NoLocals EXCEPT !.op = "stop"])
     ELSE /\ pc' = [pc EXCEPT ![c] = "idle"]
          /\ Begin(c, [NoLocals EXCEPT !.op = "stop"])
  /\ UNCHANGED <<rngVars, alive, nPolls, otherVars, nFaults>>

\* A stop that releases the hooks and forgets the control flag
RandCleanStop_SignalNoFlag(c) ==
  /\ alive
  /\ pc[c] = "stop_enter"
  /\ CanEnter(c)
  /\ hMouseHook' = NULL
  /\ hKbdHook' = NULL
  /\ pc' = [pc EXCEPT ![c] = "stop_wait"]
  /\ UNCHANGED <<poolVars, flagVars, handleVars, nUserEventsAdded,
                 randCritSec, bTerminateFastPollThread, fpPc, loc, alive,
                 nPolls, otherVars, nFaults>>

\* EnterCriticalSection .. LeaveCriticalSection: release the hooks, set the
\* control flag of the thread
RandCleanStop_Signal(c) ==
  /\ alive
  /\ pc[c] = "stop_enter"
  /\ CanEnter(c)
  /\ hMouseHook' = NULL
  /\ hKbdHook' = NULL
  /\ bTerminateFastPollThread' = TRUE
  /\ pc' = [pc EXCEPT ![c] = "stop_wait"]
  /\ UNCHANGED <<poolVars, flagVars, handleVars, nUserEventsAdded,
                 randCritSec, fpPc, loc, alive, nPolls, otherVars, nFaults>>

\* A stop that does not wait for the thread
ThreadJoinedNoWait == TRUE

\* WaitForSingleObject(hPeriodicFastPollThreadHandle, INFINITE)
ThreadJoined ==
  hPeriodicFastPollThreadHandle # NULL => fpPc = "exited"

RandCleanStop_Wait(c) ==
  /\ alive
  /\ pc[c] = "stop_wait"
  /\ ThreadJoined
  /\ pc' = [pc EXCEPT ![c] = "stop_close"]
  /\ UNCHANGED <<rngVars, loc, alive, nPolls, otherVars, nFaults>>

\* Close the provider, free the libraries, delete the critical section
RandCleanStop_Close(c) ==
  /\ alive
  /\ pc[c] = "stop_close"
  /\ bIsWin32CngAvailable' = FALSE
  /\ hBCryptProv' = IF bIsWin32CngAvailable THEN NULL ELSE hBCryptProv
  /\ hBCrypt' = NULL
  /\ hWinNativeApi' = NULL
  /\ hIpHlpApi' = NULL
  /\ hNetApi32' = NULL
  /\ hPeriodicFastPollThreadHandle' = NULL
  /\ fpPc' = IF fpPc = "exited" THEN "none" ELSE fpPc
  /\ randCritSec' = FreeCritSec
  /\ pc' = [pc EXCEPT ![c] = "stop_zero"]
  /\ UNCHANGED <<poolVars, bStrictChecksEnabled, bUserEventsEnabled,
                 bDidRandPoolInit, bDidSlowPoll, bAddedStartupInfo, hookVars,
                 bTerminateFastPollThread, loc, alive, nPolls, otherVars,
                 nFaults>>

\* VirtualUnlock(pRandPool); zeroize(pRandPool, RNG_POOL_SIZE);
RandCleanStop_Zeroize(c) ==
  /\ alive
  /\ pc[c] = "stop_zero"
  /\ pRandPool' = ZeroPool
  /\ pc' = [pc EXCEPT ![c] = "stop_free"]
  /\ UNCHANGED <<nCurrentPoolWritePos, nCurrentPoolReadPos, flagVars,
                 handleVars, hookVars, randCritSec, bTerminateFastPollThread,
                 fpPc, loc, alive, nPolls, otherVars, nFaults>>

\* _aligned_free(pRandPool); reset the pointer, the flags and the cursors
RandCleanStop_Free(c) ==
  /\ alive
  /\ pc[c] = "stop_free"
  /\ pRandPool' = NO_POOL
  /\ bStrictChecksEnabled' = FALSE
  /\ bDidRandPoolInit' = FALSE
  /\ bDidSlowPoll' = FALSE
  /\ nCurrentPoolWritePos' = 0
  /\ nCurrentPoolReadPos' = 0
  /\ pc' = [pc EXCEPT ![c] = "idle"]
  /\ loc' = [loc EXCEPT ![c].ret = IF loc[c].inInit THEN "FALSE" ELSE "void"]
  /\ UNCHANGED <<bUserEventsEnabled, bIsWin32CngAvailable, bAddedStartupInfo,
                 handleVars, hookVars, randCritSec, bTerminateFastPollThread,
                 fpPc, alive, nPolls, otherVars, nFaults>>

(***************************************************************************)
(* What one thread's write to the pool means to the fetches of the others  *)
(***************************************************************************)
\* Positions of RandFetchBytes between its first pass and its final mix
FetchWindow == {"f_invert", "f_fp2", "f_pass2"}

\* The locals after thread t (whose own locals become lt) changed the pool:
\* every other caller inside FetchWindow has seen a write of that kind
LocAfterWrite(t, kind, lt) ==
  [d \in Callers |->
     IF d = t THEN lt
     ELSE IF pc[d] \in FetchWindow
          THEN [loc[d] EXCEPT !.foreign = @ \cup {kind}]
          ELSE loc[d]]

PoolIsMapped == pRandPool \notin {NO_POOL, DANGLING}

CurrentPool == [pool |-> pRandPool, wpos |-> nCurrentPoolWritePos]

(***************************************************************************)
(* RandFastPoll                                                            *)
(***************************************************************************)
\* What the probes of one fast poll return, concatenated
FastPollBufs == {<<165, 255, 90>>}

\* The result [ok, s] of RandFastPoll on the pool s when BCryptGenRandom
\* returns cngOk and the probes return buf
RandFastPoll(s, cngOk, buf) ==
  IF bIsWin32CngAvailable /\ cngOk
  THEN LET a == AddBuf(s, buf)
       IN [ok |-> TRUE, s |-> [a EXCEPT !.pool = RandPoolMix(a.pool)]]
  ELSE [ok |-> FALSE, s |-> s]

(***************************************************************************)
(* FastPollThreadProc                                                      *)
(***************************************************************************)
\* for (;;) { EnterCriticalSection(&randCritSec);
FastPollThreadProc_Enter ==
  /\ alive
  /\ fpPc = "ready"
  /\ CanEnter(FP)
  /\ bTerminateFastPollThread \/ nPolls < MaxFastPolls
  /\ randCritSec' = EnterCriticalSection(FP)
  /\ fpPc' = "in_cs"
  /\ UNCHANGED <<poolVars, flagVars, handleVars, hookVars,
                 bTerminateFastPollThread, pc, loc, alive, nPolls,
                 otherVars, nFaults>>

\* if (bTerminateFastPollThread) { ...; _endthreadex(0); }
FastPollThreadProc_Terminate ==
  /\ alive
  /\ fpPc = "in_cs"
  /\ bTerminateFastPollThread
  /\ bTerminateFastPollThread' = FALSE
  /\ randCritSec' = LeaveCriticalSection(FP)
  /\ fpPc' = "exited"
  /\ UNCHANGED <<poolVars, flagVars, handleVars, hookVars, pc, loc, alive,
                 nPolls, otherVars, nFaults>>

\* else { RandFastPoll(); } LeaveCriticalSection(&randCritSec);
\* Sleep(RNG_FAST_POLL_INTERVAL); }
FastPollThreadProc_Poll ==
  /\ alive
  /\ fpPc = "in_cs"
  /\ ~bTerminateFastPollThread
  /\ nPolls' = nPolls + 1
  /\ UNCHANGED otherVars
  /\ IF PoolIsMapped
     THEN \E cngOk \in BOOLEAN, buf \in FastPollBufs :
            LET r == RandFastPoll(CurrentPool, cngOk, buf)
            IN /\ Faulty(~cngOk)
               /\ pRandPool' = r.s.pool
               /\ nCurrentPoolWritePos' = r.s.wpos
               /\ loc' = IF r.ok THEN LocAfterWrite(FP, "fastpoll", NoLocals)
                         ELSE loc
               /\ randCritSec' = LeaveCriticalSection(FP)
               /\ fpPc' = "ready"
               /\ alive' = alive
     ELSE \* the pool is gone: the write is an access violation
          /\ alive' = FALSE
          /\ UNCHANGED <<pRandPool, nCurrentPoolWritePos, loc, randCritSec,
                         fpPc, nFaults>>
  /\ UNCHANGED <<nCurrentPoolReadPos, flagVars, handleVars, hookVars,
                 bTerminateFastPollThread, pc>>

(***************************************************************************)
(* RngMix: RandPoolMix() with no critical section.  Each iteration of its  *)
(* loop is a step, so that the writes of other threads fall between them.  *)
(***************************************************************************)
RngMix_Call(c) ==
  /\ CanCall(c)
  /\ Begin(c, [NoLocals EXCEPT !.op = "mix", !.len = 0])
  /\ IF PoolIsMapped
     THEN pc' = [pc EXCEPT ![c] = "mix_block"] /\ alive' = alive
     ELSE \* SHA512(NULL, ...): an access violation
          pc' = [pc EXCEPT ![c] = "idle"] /\ alive' = FALSE
  /\ UNCHANGED <<rngVars, nPolls, otherVars, nFaults>>

\* loc[c].len is the loop variable i of RandPoolMix
RngMix_Block(c) ==
  /\ alive
  /\ pc[c] = "mix_block"
  /\ pRandPool' = MixBlock(pRandPool, loc[c].len)
  /\ LET i == loc[c].len + SHA512_DIGEST_LENGTH
     IN /\ loc' = LocAfterWrite(c, "rngmix", [loc[c] EXCEPT !.len = i])
        /\ pc' = [pc EXCEPT ![c] =
                    IF i >= RNG_POOL_SIZE THEN "idle" ELSE "mix_block"]
  /\ UNCHANGED <<nCurrentPoolWritePos, nCurrentPoolReadPos, flagVars,
                 handleVars, hookVars, randCritSec, bTerminateFastPollThread,
                 fpPc, alive, nPolls, otherVars, nFaults>>

\* RngEnableUserEvents
RngEnableUserEvents(c) ==
  /\ CanCall(c)
  /\ bUserEventsEnabled' = TRUE
  /\ pc' = [pc EXCEPT ![c] = "idle"]
  /\ Begin(c, [NoLocals EXCEPT !.op = "events"])
  /\ UNCHANGED <<poolVars, bStrictChecksEnabled, bDidRandPoolInit,
                 bDidSlowPoll, bIsWin32CngAvailable, bAddedStartupInfo,
                 handleVars, hookVars, randCritSec, bTerminateFastPollThread,
                 fpPc, alive, nPolls, otherVars, nFaults>>

(***************************************************************************)
(* RandSlowPoll                                                            *)
(***************************************************************************)
\* count(dwType): the information classes queried from the NT native API
NtTypes == 4

\* What the probes of the slow poll return
StartupInfoBuf == <<90>>

JentBuf == <<165, 255>>

DiskBuf == <<90>>

NtBuf == <<255>>

IpBuf == <<165>>

NetBuf == <<90>>

ShmBuf == <<255, 165>>

\* What one slow poll meets: the jitter RNG delivers (jent), the number of
\* accessible drives, whether each library can be loaded, the first NT query
\* that fails (0: none), whether GPU-Z and CoreTemp share their memory
AllProbesOk ==
  [jent |-> TRUE, drives |-> MaxDrives, ntLoad |-> TRUE, ntFail |-> 0,
   ipLoad |-> TRUE, netLoad |-> TRUE, shm |-> FALSE]

\* The environments a fetch meets
SlowPollEnvs ==
  { AllProbesOk,
    [AllProbesOk EXCEPT !.jent = FALSE],
    [AllProbesOk EXCEPT !.ntFail = 2],
    [AllProbesOk EXCEPT !.netLoad = FALSE, !.shm = TRUE] }

RECURSIVE AddTimes(_, _, _)
AddTimes(s, buf, n) == IF n = 0 THEN s ELSE AddTimes(AddBuf(s, buf), buf, n - 1)

\* The state of a slow poll in progress: the pool, the library handles, and
\* done = "no" while it runs, then its return value
SlowPollStart(s) ==
  [s |-> s, nt |-> hWinNativeApi, ip |-> hIpHlpApi, net |-> hNetApi32,
   done |-> "no"]

\* startup info, once in the lifetime of the process
SlowPoll_Startup(q) ==
  IF bAddedStartupInfo THEN q ELSE [q EXCEPT !.s = AddBuf(@, StartupInfoBuf)]

\* the jitter RNG: if (!collected) return FALSE;
SlowPoll_Jent(q, env) ==
  IF env.jent THEN [q EXCEPT !.s = AddBuf(@, JentBuf)]
  ELSE [q EXCEPT !.done = "FALSE"]

\* disk statistics of every drive that can be opened
SlowPoll_Disks(q, env) ==
  IF q.done # "no" THEN q ELSE [q EXCEPT !.s = AddTimes(@, DiskBuf, env.drives)]

\* NtQuerySystemInformation for each class; a failing query returns FALSE
SlowPoll_Nt(q, env) ==
  IF q.done # "no" THEN q
  ELSE LET h == IF q.nt = NULL /\ env.ntLoad THEN "ntdll.dll" ELSE q.nt
       IN IF h = NULL
          THEN [q EXCEPT !.nt = h,
                         !.done = IF bStrictChecksEnabled THEN "FALSE" ELSE "no"]
          ELSE IF env.ntFail = 0
          THEN [q EXCEPT !.nt = h, !.s = AddTimes(@, NtBuf, NtTypes)]
          ELSE [q EXCEPT !.nt = h, !.s = AddTimes(@, NtBuf, env.ntFail - 1),
                         !.done = "FALSE"]

\* TCP/IP statistics
SlowPoll_Ip(q, env) ==
  IF q.done # "no" THEN q
  ELSE LET h == IF q.ip = NULL /\ env.ipLoad THEN "iphlpapi.dll" ELSE q.ip
       IN IF h = NULL
          THEN [q EXCEPT !.ip = h,
                         !.done = IF bStrictChecksEnabled THEN "FALSE" ELSE "no"]
          ELSE [q EXCEPT !.ip = h, !.s = AddBuf(@, IpBuf)]

\* Lanman workstation/server statistics
SlowPoll_Net(q, env) ==
  IF q.done # "no" THEN q
  ELSE LET h == IF q.net = NULL /\ env.netLoad THEN "netapi32.dll" ELSE q.net
       IN IF h = NULL
          THEN [q EXCEPT !.net = h,
                         !.done = IF bStrictChecksEnabled THEN "FALSE" ELSE "no"]
          ELSE [q EXCEPT !.net = h, !.s = AddBuf(@, NetBuf)]

\* GPU-Z and CoreTemp shared memory, then the final mix
SlowPoll_Shm(q, env) ==
  IF q.done # "no" THEN q
  ELSE LET a == IF env.shm THEN AddBuf(q.s, ShmBuf) ELSE q.s
       IN [q EXCEPT !.s = [a EXCEPT !.pool = RandPoolMix(a.pool)],
                    !.done = "TRUE"]

RandSlowPoll(s, env) ==
  SlowPoll_Shm(
    SlowPoll_Net(
      SlowPoll_Ip(
        SlowPoll_Nt(
          SlowPoll_Disks(
            SlowPoll_Jent(SlowPoll_Startup(SlowPollStart(s)), env),
            env), env), env), env), env)

(***************************************************************************)
(* RandFetchBytes / RngFetchBytes                                          *)
(***************************************************************************)
\* The requests tried: a null buffer, a length beyond the pool, and requests
\* with and without a forced slow poll
FetchArgs ==
  { [dataNull |-> TRUE, len |-> 3, force |-> TRUE],
    [dataNull |-> FALSE, len |-> RNG_POOL_SIZE + 1, force |-> TRUE],
    [dataNull |-> FALSE, len |-> 3, force |-> TRUE],
    [dataNull |-> FALSE, len |-> 3, force |-> FALSE] }

\* An exception handler that logs a fatal error and returns
handle_exception_returns(fatal) == TRUE

\* handle_exception(code, fatal, ...): if (fatal) { ...; kill(); }.  The value
\* is whether the process is still there when it returns.
handle_exception(fatal) == ~fatal

\* The positions of a fetch that passed its checks
FetchPcs ==
  {"f_enter", "f_slow", "f_events", "f_msgloop", "f_fp1", "f_pass1",
   "f_invert", "f_fp2", "f_pass2", "f_cleanup"}

\* The argument checks, and the fatal error when the pool is not initialized
RandFetchBytes_Call(c, dataNull, len, force) ==
  /\ CanCall(c)
  /\ Begin(c, [NoLocals EXCEPT !.op = "fetch", !.dataNull = dataNull,
                               !.len = len, !.force = force, !.ret = "FALSE",
                               !.data = IF dataNull \/ len > RNG_POOL_SIZE
                                        THEN <<>> ELSE PriorData(len)])
  /\ IF dataNull \/ len > RNG_POOL_SIZE
     THEN pc' = [pc EXCEPT ![c] = "idle"] /\ alive' = alive
     ELSE IF ~bDidRandPoolInit
     THEN \* Throw(ERR_RAND_INIT, FATAL, GetLastError(), __LINE__);
          /\ alive' = handle_exception(TRUE)
          /\ pc' = [pc EXCEPT ![c] = IF handle_exception(TRUE)
                                     THEN "f_enter" ELSE "killed"]
     ELSE pc' = [pc EXCEPT ![c] = "f_enter"] /\ alive' = alive
  /\ UNCHANGED <<rngVars, nPolls, otherVars, nFaults>>

\* EnterCriticalSection(&randCritSec);
RandFetchBytes_Enter(c) ==
  /\ alive
  /\ pc[c] = "f_enter"
  /\ CanEnter(c)
  /\ randCritSec' = EnterCriticalSection(c)
  /\ pc' = [pc EXCEPT ![c] = "f_slow"]
  /\ UNCHANGED <<poolVars, flagVars, handleVars, hookVars,
                 bTerminateFastPollThread, fpPc, loc, alive, nPolls,
                 otherVars, nFaults>>

\* if (!bDidSlowPoll || forceSlowPoll) { if (!RandSlowPoll()) goto cleanup;
\*                                       else bDidSlowPoll = TRUE; }
\* A fetch that polls slowly only when it is forced to
NeedSlowPollForced(force) == force

\* if (!bDidSlowPoll || forceSlowPoll)
NeedSlowPoll(force) == ~bDidSlowPoll \/ force

\* A fetch that forgets to record its slow poll
SlowPollFlagNever(done) == bDidSlowPoll

\* A fetch that records a slow poll whatever its result
SlowPollFlagAlways(done) == TRUE

\* if (!RandSlowPoll()) goto cleanup; else bDidSlowPoll = TRUE;
SlowPollFlag(done) == IF done = "TRUE" THEN TRUE ELSE bDidSlowPoll

RandFetchBytes_SlowPoll(c) ==
  /\ alive
  /\ pc[c] = "f_slow"
  /\ IF NeedSlowPoll(loc[c].force)
     THEN \E env \in SlowPollEnvs :
            LET r == RandSlowPoll(CurrentPool, env)
            IN /\ Faulty(env # AllProbesOk)
               /\ pRandPool' = r.s.pool
               /\ nCurrentPoolWritePos' = r.s.wpos
               /\ hWinNativeApi' = r.nt
               /\ hIpHlpApi' = r.ip
               /\ hNetApi32' = r.net
               /\ bAddedStartupInfo' = TRUE
               /\ bDidSlowPoll' = SlowPollFlag(r.done)
               /\ pc' = [pc EXCEPT ![c] =
                           IF r.done = "TRUE" THEN "f_events"
                           ELSE "f_cleanup"]
               /\ loc' = LocAfterWrite(c, "fetch",
                           [loc[c] EXCEPT !.slowAtEntry = bDidSlowPoll,
                                          !.steps = <<"slowpoll", r.done>>,
                                          !.probes = <<env>>])
     ELSE /\ pc' = [pc EXCEPT ![c] = "f_events"]
          /\ loc' = [loc EXCEPT ![c].slowAtEntry = bDidSlowPoll]
          /\ UNCHANGED <<pRandPool, nCurrentPoolWritePos, hWinNativeApi,
                         hIpHlpApi, hNetApi32, bAddedStartupInfo,
                         bDidSlowPoll, nFaults>>
  /\ UNCHANGED <<nCurrentPoolReadPos, bStrictChecksEnabled,
                 bUserEventsEnabled, bDidRandPoolInit, bIsWin32CngAvailable,
                 hPeriodicFastPollThreadHandle, hBCrypt, hBCryptProv,
                 hookVars, randCritSec, bTerminateFastPollThread, fpPc,
                 alive, nPolls, otherVars>>

\* A RandFastPoll() of the fetch at position from; it goes to position to,
\* or to the cleanup when the poll fails
FetchFastPoll(c, from, to) ==
  /\ alive
  /\ pc[c] = from
  /\ \E cngOk \in BOOLEAN, buf \in FastPollBufs :
       LET r == RandFastPoll(CurrentPool, cngOk, buf)
       IN /\ Faulty(~cngOk)
          /\ pRandPool' = r.s.pool
          /\ nCurrentPoolWritePos' = r.s.wpos
          /\ pc' = [pc EXCEPT ![c] = IF r.ok THEN to ELSE "f_cleanup"]
          /\ loc' = IF r.ok
                    THEN LocAfterWrite(c, "fetch",
                           [loc[c] EXCEPT !.steps = @ \o <<"add", "mix">>])
                    ELSE loc
  /\ UNCHANGED <<nCurrentPoolReadPos, flagVars, handleVars, hookVars,
                 randCritSec, bTerminateFastPollThread, fpPc, alive,
                 nPolls, otherVars>>

\* The loop of an extraction pass: n more bytes from the read cursor, which
\* goes back to 0 when it has reached RNG_POOL_SIZE
RECURSIVE ReadLoop(_, _, _, _)
ReadLoop(p, rpos, n, acc) ==
  IF n = 0 THEN [bytes |-> acc, rpos |-> rpos]
  ELSE LET r == IF rpos = RNG_POOL_SIZE THEN 0 ELSE rpos
       IN ReadLoop(p, r + 1, n - 1, Append(acc, p[r + 1]))

ReadPass(p, rpos, len) == ReadLoop(p, rpos, len, <<>>)

\* /* Mix the pool */ if (!RandFastPoll()) goto cleanup;
RandFetchBytes_FastPoll1(c) == FetchFastPoll(c, "f_fp1", "f_pass1")

\* data[i] = pRandPool[nCurrentPoolReadPos]
RandFetchBytes_Pass1(c) ==
  /\ alive
  /\ pc[c] = "f_pass1"
  /\ LET r == ReadPass(pRandPool, nCurrentPoolReadPos, loc[c].len)
     IN /\ loc' = [loc EXCEPT ![c].data = r.bytes, ![c].snap1 = r.bytes,
                              ![c].passes = 1,
                              ![c].steps = @ \o <<"pass1">>]
        /\ nCurrentPoolReadPos' = r.rpos
  /\ pc' = [pc EXCEPT ![c] = "f_invert"]
  /\ UNCHANGED <<pRandPool, nCurrentPoolWritePos, flagVars, handleVars,
                 hookVars, randCritSec, bTerminateFastPollThread, fpPc,
                 alive, nPolls, otherVars, nFaults>>

\* /* Invert the pool */
RandFetchBytes_Invert(c) ==
  /\ alive
  /\ pc[c] = "f_invert"
  /\ pRandPool' = InvertPool(pRandPool)
  /\ loc' = LocAfterWrite(c, "fetch",
              [loc[c] EXCEPT !.steps = @ \o <<"invert">>])
  /\ pc' = [pc EXCEPT ![c] = "f_fp2"]
  /\ UNCHANGED <<nCurrentPoolWritePos, nCurrentPoolReadPos, flagVars,
                 handleVars, hookVars, randCritSec, bTerminateFastPollThread,
                 fpPc, alive, nPolls, otherVars, nFaults>>

\* /* Mix the pool */ if (!RandFastPoll()) goto cleanup;
RandFetchBytes_FastPoll2(c) == FetchFastPoll(c, "f_fp2", "f_pass2")

\* data[i] ^= pRandPool[nCurrentPoolReadPos]; /* Mix the pool */
\* RandPoolMix(); ret = TRUE;
RandFetchBytes_Pass2(c) ==
  /\ alive
  /\ pc[c] = "f_pass2"
  /\ LET r == ReadPass(pRandPool, nCurrentPoolReadPos, loc[c].len)
         l == [loc[c] EXCEPT
                 !.data = SubSeq([i \in 1 .. loc[c].len |->
                                    BXor(loc[c].data[i], r.bytes[i])],
                                 1, loc[c].len),
                 !.snap2 = r.bytes, !.passes = 2,
                 !.steps = @ \o <<"pass2", "mix">>, !.ret = "TRUE"]
     IN /\ loc' = LocAfterWrite(c, "fetch", l)
        /\ nCurrentPoolReadPos' = r.rpos
  /\ pRandPool' = RandPoolMix(pRandPool)
  /\ pc' = [pc EXCEPT ![c] = "f_cleanup"]
  /\ UNCHANGED <<nCurrentPoolWritePos, flagVars, handleVars, hookVars,
                 randCritSec, bTerminateFastPollThread, fpPc, alive,
                 nPolls, otherVars, nFaults>>

\* A cleanup that returns without LeaveCriticalSection
RandFetchBytes_CleanupHolds(c) ==
  /\ alive
  /\ pc[c] = "f_cleanup"
  /\ pc' = [pc EXCEPT ![c] = "idle"]
  /\ UNCHANGED <<poolVars, flagVars, handleVars, hookVars, randCritSec,
                 bTerminateFastPollThread, fpPc, loc, alive, nPolls,
                 otherVars, nFaults>>

\* cleanup: LeaveCriticalSection(&randCritSec); return ret;
RandFetchBytes_Cleanup(c) ==
  /\ alive
  /\ pc[c] = "f_cleanup"
  /\ randCritSec' = LeaveCriticalSection(c)
  /\ pc' = [pc EXCEPT ![c] = "idle"]
  /\ UNCHANGED <<poolVars, flagVars, handleVars, hookVars,
                 bTerminateFastPollThread, fpPc, loc, alive, nPolls,
                 otherVars, nFaults>>

(***************************************************************************)
(* AddUserEvents, MouseProc, KeyboardProc                                  *)
(***************************************************************************)
\* crc + timeCrc of an event
MouseWords == {1520828250}
\* The words a keyboard callback adds: CRC-32 of the key plus CRC-32 of the
\* time
KeyWords == {1509991935}

\* Events the message loop may still dispatch after WM_QUIT was posted
MaxLateEvents == 1

\* if (bUserEventsEnabled && !AddUserEvents()) goto cleanup;
\* SetWindowsHookEx for both hooks; on failure the exit path of AddUserEvents
RandFetchBytes_UserEvents(c) ==
  /\ alive
  /\ pc[c] = "f_events"
  /\ IF bUserEventsEnabled
     THEN \E mouseOk \in BOOLEAN, kbdOk \in BOOLEAN :
            /\ Faulty(~(mouseOk /\ kbdOk))
            /\ IF mouseOk /\ kbdOk
               THEN /\ hMouseHook' = "mouse"
                    /\ hKbdHook' = "kbd"
                    /\ pc' = [pc EXCEPT ![c] = "f_msgloop"]
                    /\ UNCHANGED nUserEventsAdded
               ELSE /\ hMouseHook' = NULL
                    /\ hKbdHook' = NULL
                    /\ nUserEventsAdded' = 0
                    /\ pc' = [pc EXCEPT ![c] = "f_cleanup"]
     ELSE /\ pc' = [pc EXCEPT ![c] = "f_fp1"]
          /\ UNCHANGED <<hookVars, nFaults>>
  /\ UNCHANGED <<poolVars, flagVars, handleVars, randCritSec,
                 bTerminateFastPollThread, fpPc, loc, alive, nPolls,
                 otherVars>>

\* A hook callback, on the thread that runs the message loop.  captured: the
\* event passes the callback's filter (nCode, a real move or a new key).
HookProc(c, captured, w) ==
  /\ alive
  /\ pc[c] = "f_msgloop"
  /\ LET quit == loc[c].quit \/ nUserEventsAdded > USER_EVENTS_LIMIT
     IN IF captured
        THEN LET a == Add32(CurrentPool, w)
             IN /\ nUserEventsAdded' = nUserEventsAdded + 1
                /\ pRandPool' = a.pool
                /\ nCurrentPoolWritePos' = a.wpos
                /\ loc' = LocAfterWrite(c, "fetch",
                            [loc[c] EXCEPT !.quit = quit])
        ELSE /\ loc' = [loc EXCEPT ![c].quit = quit]
             /\ UNCHANGED <<nUserEventsAdded, pRandPool,
                            nCurrentPoolWritePos>>
  /\ UNCHANGED <<nCurrentPoolReadPos, flagVars, handleVars, hMouseHook,
                 hKbdHook, randCritSec, bTerminateFastPollThread, fpPc, pc,
                 alive, nPolls, otherVars, nFaults>>

HookEnabled(captured) ==
  captured => nUserEventsAdded <= USER_EVENTS_LIMIT + MaxLateEvents

\* A mouse event, delivered to the thread whose message loop runs
MouseProc ==
  /\ hMouseHook # NULL
  /\ \E c \in Callers, captured \in BOOLEAN, w \in MouseWords :
       HookEnabled(captured) /\ HookProc(c, captured, w)

\* A keyboard event, delivered to the thread whose message loop runs
KeyboardProc ==
  /\ hKbdHook # NULL
  /\ \E c \in Callers, captured \in BOOLEAN, w \in KeyWords :
       HookEnabled(captured) /\ HookProc(c, captured, w)

\* GetMessage returns 0 on WM_QUIT: mix the pool, reset the counter, unhook
AddUserEvents_Exit ==
  /\ alive
  /\ \E c \in Callers :
       /\ pc[c] = "f_msgloop"
       /\ loc[c].quit
       /\ loc' = LocAfterWrite(c, "fetch", [loc[c] EXCEPT !.quit = FALSE])
       /\ pc' = [pc EXCEPT ![c] = "f_fp1"]
  /\ pRandPool' = RandPoolMix(pRandPool)
  /\ nUserEventsAdded' = 0
  /\ hMouseHook' = NULL
  /\ hKbdHook' = NULL
  /\ UNCHANGED <<nCurrentPoolWritePos, nCurrentPoolReadPos, flagVars,
                 handleVars, randCritSec, bTerminateFastPollThread, fpPc,
                 alive, nPolls, otherVars, nFaults>>

(***************************************************************************)
(* The system                                                              *)
(***************************************************************************)
\* Start, stop and the enabling of user events come from the main thread
LifecycleStep(c) ==
  \/ RandPoolInit(c)
  \/ RandCleanStop_Call(c)
  \/ RandCleanStop_Signal(c)
  \/ RandCleanStop_Wait(c)
  \/ RandCleanStop_Close(c)
  \/ RandCleanStop_Zeroize(c)
  \/ RandCleanStop_Free(c)
  \/ RngEnableUserEvents(c)

\* Fetches and mixes come from any thread of the application
CallerStep(c) ==
  \/ \E a \in FetchArgs :
       RandFetchBytes_Call(c, a.dataNull, a.len, a.force)
  \/ RandFetchBytes_Enter(c)
  \/ RandFetchBytes_SlowPoll(c)
  \/ RandFetchBytes_UserEvents(c)
  \/ RandFetchBytes_FastPoll1(c)
  \/ RandFetchBytes_Pass1(c)
  \/ RandFetchBytes_Invert(c)
  \/ RandFetchBytes_FastPoll2(c)
  \/ RandFetchBytes_Pass2(c)
  \/ RandFetchBytes_Cleanup(c)
  \/ RngMix_Call(c)
  \/ RngMix_Block(c)

Next ==
  \/ LifecycleStep(MainThread)
  \/ \E c \in Callers : CallerStep(c)
  \/ MouseProc
  \/ KeyboardProc
  \/ AddUserEvents_Exit
  \/ FastPollThreadProc_Enter
  \/ FastPollThreadProc_Terminate
  \/ FastPollThreadProc_Poll

Spec == Init /\ [][Next]_vars

(***************************************************************************)
(* The specification with the scheduling the operating system provides:    *)
(* the fast-poll thread gets the critical section when it is free and     *)
(* sees the control flag, and a stop that can take its next step takes it. *)
(***************************************************************************)
StopStep(c) ==
  \/ RandCleanStop_Signal(c)
  \/ RandCleanStop_Wait(c)
  \/ RandCleanStop_Close(c)
  \/ RandCleanStop_Zeroize(c)
  \/ RandCleanStop_Free(c)

\* The thread reaches the head of its loop again, and leaves when told to
FastPollThreadProc_Loop ==
  \/ FastPollThreadProc_Enter
  \/ FastPollThreadProc_Terminate

FairSpec ==
  /\ Spec
  /\ WF_vars(FastPollThreadProc_Loop)
  /\ WF_vars(StopStep(MainThread))

(***************************************************************************)
(* The collector alone: bytes are added to the pool of a started generator *)
(* one at a time, and the pool is mixed from outside, in any order.        *)
(***************************************************************************)
\* Number of bytes added in one run
MaxAdded == 10

\* The bytes Add8 is called with
Add8Bytes == {165}

\* The generator after a successful RngStart, before any poll
CollectorInit ==
  /\ pRandPool \in FreshPools
  /\ nCurrentPoolWritePos = 0
  /\ nCurrentPoolReadPos = 0
  /\ hPeriodicFastPollThreadHandle = "thread"
  /\ bStrictChecksEnabled = FALSE
  /\ bUserEventsEnabled = FALSE
  /\ bDidRandPoolInit = TRUE
  /\ bDidSlowPoll = FALSE
  /\ bIsWin32CngAvailable = TRUE
  /\ hBCrypt = "bcrypt.dll"
  /\ hBCryptProv = "rng"
  /\ hWinNativeApi = NULL
  /\ hIpHlpApi = NULL
  /\ hNetApi32 = NULL
  /\ nUserEventsAdded = 0
  /\ hMouseHook = NULL
  /\ hKbdHook = NULL
  /\ randCritSec = FreeCritSec
  /\ bTerminateFastPollThread = FALSE
  /\ bAddedStartupInfo = FALSE
  /\ fpPc = "ready"
  /\ pc = [c \in Callers |-> "idle"]
  /\ loc = [c \in Callers |-> NoLocals]
  /\ alive = TRUE
  /\ nPolls = 0
  /\ nFaults = 0
  /\ nAdded = 0
  /\ nSinceMix = 0
  /\ NoDrbg
  /\ NoTrivium

\* What an addition and a mix leave alone
collectorFrame ==
  <<nCurrentPoolReadPos, flagVars, handleVars, hookVars, randCritSec,
    bTerminateFastPollThread, fpPc, pc, loc, alive, nPolls, nFaults,
    drbg, call, nGenerated, instantiated, ctr, tv>>

\* The bytes written since the last mix, after one more byte is added to s:
\* adding the byte 0 changes the pool exactly when the addition mixes it
SinceMix(n, s) == IF AddByte(s, 0).pool # s.pool THEN 1 ELSE n + 1

\* void Add8(uint8_t x) { AddByte(x); }
Add8(x) ==
  /\ PoolIsMapped
  /\ nAdded < MaxAdded
  /\ LET r == AddByte(CurrentPool, x)
     IN /\ pRandPool' = r.pool
        /\ nCurrentPoolWritePos' = r.wpos
  /\ nAdded' = nAdded + 1
  /\ nSinceMix' = SinceMix(nSinceMix, CurrentPool)
  /\ UNCHANGED collectorFrame

\* void RngMix(void) { RandPoolMix(); }, as one step
RngMix ==
  /\ PoolIsMapped
  /\ nSinceMix > 0
  /\ pRandPool' = RandPoolMix(pRandPool)
  /\ nSinceMix' = 0
  /\ UNCHANGED <<nCurrentPoolWritePos, nAdded, collectorFrame>>

CollectorNext ==
  \/ \E x \in Add8Bytes : Add8(x)
  \/ RngMix

CollectorSpec == CollectorInit /\ [][CollectorNext]_vars

(***************************************************************************)
(* The DRBGs (hmac_drbg.c, hash_drbg.c, ctr_drbg.c).  One generator is     *)
(* under study in a run; its caller owns the state struct and calls init,  *)
(* reseed and generate in any order.  Lengths and the reseed limit are at  *)
(* a smaller scale, with the order of the limits of the program kept.      *)
(***************************************************************************)
\* HASH_DRBG_MIN_ENTROPY_LEN, HMAC_DRBG_MIN_ENTROPY_LEN (32)
DRBG_MIN_ENTROPY_LEN == 1

\* HASH_DRBG_MAX_ENTROPY_LEN, HMAC_DRBG_MAX_ENTROPY_LEN (1 << 32), which is
\* also the value of the _MAX_PERS_STR_LEN and _MAX_ADDN_INP_LEN limits
DRBG_MAX_ENTROPY_LEN == 3

\* HASH_DRBG_MAX_NONCE_LEN, HMAC_DRBG_MAX_NONCE_LEN (1 << 16)
DRBG_MAX_NONCE_LEN == 1

\* HMAC_DRBG_MAX_INPUT_LEN (1 << 32, as the entropy limit)
HMAC_DRBG_MAX_INPUT_LEN == DRBG_MAX_ENTROPY_LEN

\* HASH_DRBG_MAX_OUT_LEN, HMAC_DRBG_MAX_OUTPUT_LEN, CTR_DRBG_MAX_OUT_LEN
\* (1 << 16): a full block and a part of one
DRBG_MAX_OUT_LEN == SHA512_DIGEST_LENGTH + 1

\* HASH_DRBG_MAX_RESEED_CNT, HMAC_DRBG_MAX_RESEED_CNT, CTR_DRBG_MAX_RESEED_CNT
\* (1 << 48)
DRBG_MAX_RESEED_CNT == 1

\* ERR_HASH_DRBG_* and ERR_HMAC_DRBG_* (the same values)
ERR_DRBG_SUCCESS == 0

ERR_DRBG_NOT_INIT == -1

ERR_DRBG_NULL_PTR == -2

ERR_DRBG_BAD_ARGS == -3

ERR_DRBG_INTERNAL == -4

ERR_DRBG_MEM_FAIL == -5

ERR_DRBG_DO_RESEED == -6

\* status_t
FAILURE == 0

SUCCESS == 1

\* A buffer argument: a pointer (null or not) and a length; its len bytes
Bytes(a) ==
  IF a.null THEN <<>>
  ELSE SubSeq([i \in 1 .. a.len |-> Alphabet[((i + a.tag) % 4) + 1]],
              1, a.len)

Filled(n, b) == SubSeq([i \in 1 .. n |-> b], 1, n)

\* What a call returns: the state it leaves, its status and the output buffer
Result(st, ret, out) == [st |-> st, ret |-> ret, out |-> out]

\* HMAC(md, K, key_len, d, n, md_value, NULL): an external primitive
HMAC(K, d) == SHA512(K \o d)

\* hmac_drbg_update; fault names the allocation or the HMAC call that fails
hmac_drbg_update(st, data, data_len, isNull, fault) ==
  IF isNull /\ data_len > 0 THEN Result(st, ERR_DRBG_NULL_PTR, <<>>)
  ELSE IF data_len > HMAC_DRBG_MAX_INPUT_LEN
  THEN Result(st, ERR_DRBG_BAD_ARGS, <<>>)
  ELSE IF fault = "malloc" THEN Result(st, ERR_DRBG_MEM_FAIL, <<>>)
  ELSE IF fault = "hmac1" THEN Result(st, ERR_DRBG_INTERNAL, <<>>)
  ELSE
    LET K1 == HMAC(st.K, st.V \o <<0>> \o data)
        V1 == HMAC(K1, st.V)
        K2 == HMAC(K1, V1 \o <<1>> \o data)
        V2 == HMAC(K2, V1)
    IN IF fault = "hmac2"
       THEN Result([st EXCEPT !.K = K1], ERR_DRBG_INTERNAL, <<>>)
       ELSE IF data_len = 0
       THEN Result([st EXCEPT !.K = K1, !.V = V1], ERR_DRBG_SUCCESS, <<>>)
       ELSE IF fault = "hmac3"
       THEN Result([st EXCEPT !.K = K1, !.V = V1], ERR_DRBG_INTERNAL, <<>>)
       ELSE Result([st EXCEPT !.K = K2, !.V = V2], ERR_DRBG_SUCCESS, <<>>)

\* hmac_drbg_init
hmac_drbg_init(st, entropy, nonce, pers, fault) ==
  IF entropy.null THEN Result(st, ERR_DRBG_NULL_PTR, <<>>)
  ELSE IF entropy.len < DRBG_MIN_ENTROPY_LEN
          \/ entropy.len > DRBG_MAX_ENTROPY_LEN
  THEN Result(st, ERR_DRBG_BAD_ARGS, <<>>)
  ELSE IF nonce.null THEN Result(st, ERR_DRBG_NULL_PTR, <<>>)
  ELSE IF nonce.len = 0 \/ nonce.len > DRBG_MAX_NONCE_LEN
  THEN Result(st, ERR_DRBG_BAD_ARGS, <<>>)
  ELSE IF pers.null /\ pers.len > 0 THEN Result(st, ERR_DRBG_NULL_PTR, <<>>)
  ELSE IF pers.len > DRBG_MAX_ENTROPY_LEN
  THEN Result(st, ERR_DRBG_BAD_ARGS, <<>>)
  ELSE IF fault = "seed_malloc" THEN Result(st, ERR_DRBG_MEM_FAIL, <<>>)
  ELSE
    LET seed_material == Bytes(entropy) \o Bytes(nonce) \o Bytes(pers)
        st0 == [st EXCEPT !.K = Filled(SHA512_DIGEST_LENGTH, 0),
                          !.V = Filled(SHA512_DIGEST_LENGTH, 1)]
        r == hmac_drbg_update(st0, seed_material, Len(seed_material), FALSE,
                              fault)
    IN IF r.ret # ERR_DRBG_SUCCESS THEN r
       ELSE Result([r.st EXCEPT !.reseed_counter = 1, !.flags = 1],
                   ERR_DRBG_SUCCESS, <<>>)

\* HMAC_DRBG_STATE_IS_INIT, HASH_DRBG_STATE_IS_INIT: flags & 0x01
DRBG_STATE_IS_INIT(st) == st.flags % 2 = 1

\* hmac_drbg_reseed
hmac_drbg_reseed(st, entropy, addl, fault) ==
  IF ~DRBG_STATE_IS_INIT(st) THEN Result(st, ERR_DRBG_NOT_INIT, <<>>)
  ELSE IF entropy.null THEN Result(st, ERR_DRBG_NULL_PTR, <<>>)
  ELSE IF entropy.len < DRBG_MIN_ENTROPY_LEN
          \/ entropy.len > DRBG_MAX_ENTROPY_LEN
  THEN Result(st, ERR_DRBG_BAD_ARGS, <<>>)
  ELSE IF addl.null /\ addl.len > 0 THEN Result(st, ERR_DRBG_NULL_PTR, <<>>)
  ELSE IF fault = "seed_malloc" THEN Result(st, ERR_DRBG_MEM_FAIL, <<>>)
  ELSE
    LET seed_material == Bytes(entropy) \o Bytes(addl)
        r == hmac_drbg_update(st, seed_material, Len(seed_material), FALSE,
                              fault)
    IN IF r.ret # ERR_DRBG_SUCCESS THEN r
       ELSE Result([r.st EXCEPT !.reseed_counter = 1], ERR_DRBG_SUCCESS,
                   <<>>)

\* The loops of hmac_drbg_generate: V = HMAC(K, V) for every block, whole or
\* not, copied to the output
RECURSIVE hmac_blocks(_, _, _)
hmac_blocks(K, V, remaining) ==
  IF remaining = 0 THEN [V |-> V, out |-> <<>>]
  ELSE LET V1 == HMAC(K, V)
           n == IF remaining >= SHA512_DIGEST_LENGTH
                THEN SHA512_DIGEST_LENGTH ELSE remaining
           rest == hmac_blocks(K, V1, remaining - n)
       IN [V |-> rest.V, out |-> SubSeq(V1, 1, n) \o rest.out]

\* hmac_drbg_generate; fault.at names the part of the call the fault hits
hmac_drbg_generate(st, out, addl, fault) ==
  IF ~DRBG_STATE_IS_INIT(st) THEN Result(st, ERR_DRBG_NOT_INIT, Bytes(out))
  ELSE IF out.null /\ out.len > 0
  THEN Result(st, ERR_DRBG_NULL_PTR, Bytes(out))
  ELSE IF out.len > DRBG_MAX_OUT_LEN
  THEN Result(st, ERR_DRBG_BAD_ARGS, Bytes(out))
  ELSE IF addl.null /\ addl.len > 0
  THEN Result(st, ERR_DRBG_NULL_PTR, Bytes(out))
  ELSE IF addl.len > DRBG_MAX_ENTROPY_LEN
  THEN Result(st, ERR_DRBG_BAD_ARGS, Bytes(out))
  ELSE IF st.reseed_counter > DRBG_MAX_RESEED_CNT
  THEN Result(st, ERR_DRBG_DO_RESEED, Bytes(out))
  ELSE
    LET pre == IF addl.len > 0
               THEN hmac_drbg_update(st, Bytes(addl), addl.len, addl.null,
                                     IF fault.at = "pre"
                                     THEN fault.f ELSE "none")
               ELSE Result(st, ERR_DRBG_SUCCESS, <<>>)
        g == hmac_blocks(pre.st.K, pre.st.V, out.len)
        st1 == [pre.st EXCEPT !.V = g.V]
        post == hmac_drbg_update(st1, Bytes(addl), addl.len, addl.null,
                                 IF fault.at = "post"
                                 THEN fault.f ELSE "none")
    IN IF pre.ret # ERR_DRBG_SUCCESS
       THEN Result(pre.st, pre.ret, Bytes(out))
       ELSE IF fault.at = "block" /\ out.len > 0
       THEN Result(pre.st, ERR_DRBG_INTERNAL, Bytes(out))
       ELSE IF post.ret # ERR_DRBG_SUCCESS
       THEN Result(post.st, post.ret, g.out)
       ELSE Result([post.st EXCEPT !.reseed_counter = @ + 1],
                   ERR_DRBG_SUCCESS, g.out)

\* HASH_DRBG_SEED_LEN (111): a whole digest and a part of one
HASH_DRBG_SEED_LEN == SHA512_DIGEST_LENGTH + 1

\* hash_drbg_add_int, were the carry dropped after the last byte of N
RECURSIVE add_int_from_NoRipple(_, _, _, _, _)
add_int_from_NoRipple(V, N, i, len, carry) ==
  IF i = 0 \/ len = 0 THEN V
  ELSE LET sum == V[i] + carry + N[len]
       IN add_int_from_NoRipple([V EXCEPT ![i] = sum % 256], N, i - 1,
                                len - 1, sum \div 256)

\* hash_drbg_add_int from byte i of V down, with len bytes of N left
RECURSIVE add_int_from(_, _, _, _, _)
add_int_from(V, N, i, len, carry) ==
  IF i = 0 THEN V
  ELSE LET sum == V[i] + carry + (IF len > 0 THEN N[len] ELSE 0)
       IN add_int_from([V EXCEPT ![i] = sum % 256], N, i - 1,
                       IF len > 0 THEN len - 1 ELSE 0, sum \div 256)

\* hash_drbg_add_int: V = (V + N) mod 2^seedlen, big-endian
hash_drbg_add_int(V, N) == add_int_from(V, N, HASH_DRBG_SEED_LEN, Len(N), 0)

\* output_len_bits as a big-endian 32-bit string
output_len_bits_str(output_len) ==
  LET bits == output_len * 8
  IN <<(bits \div 16777216) % 256, (bits \div 65536) % 256,
       (bits \div 256) % 256, bits % 256>>

\* The loop of hash_drbg_df: Hash(counter || no_of_bits_to_return || input)
RECURSIVE df_blocks(_, _, _, _)
df_blocks(input, bits_str, counter, remaining) ==
  LET md_value == SHA512(<<counter>> \o bits_str \o input)
  IN IF remaining < SHA512_DIGEST_LENGTH THEN SubSeq(md_value, 1, remaining)
     ELSE md_value \o df_blocks(input, bits_str, (counter + 1) % 256,
                                remaining - SHA512_DIGEST_LENGTH)

\* hash_drbg_df, when EVP_MD_CTX_new succeeds
hash_drbg_df(input, output_len) ==
  df_blocks(input, output_len_bits_str(output_len), 1, output_len)

\* hash_drbg_init; fault names the allocation or the derivation that fails
hash_drbg_init(st, entropy, nonce, pers, fault) ==
  IF entropy.null THEN Result(st, ERR_DRBG_NULL_PTR, <<>>)
  ELSE IF entropy.len < DRBG_MIN_ENTROPY_LEN
          \/ entropy.len > DRBG_MAX_ENTROPY_LEN
  THEN Result(st, ERR_DRBG_BAD_ARGS, <<>>)
  ELSE IF nonce.null THEN Result(st, ERR_DRBG_NULL_PTR, <<>>)
  ELSE IF nonce.len = 0 \/ nonce.len > DRBG_MAX_NONCE_LEN
  THEN Result(st, ERR_DRBG_BAD_ARGS, <<>>)
  ELSE IF pers.null /\ pers.len > 0 THEN Result(st, ERR_DRBG_NULL_PTR, <<>>)
  ELSE IF pers.len > DRBG_MAX_ENTROPY_LEN
  THEN Result(st, ERR_DRBG_BAD_ARGS, <<>>)
  ELSE IF fault = "seed_malloc" THEN Result(st, ERR_DRBG_MEM_FAIL, <<>>)
  ELSE IF fault = "df1" THEN Result(st, ERR_DRBG_INTERNAL, <<>>)
  ELSE
    LET seed_material == Bytes(entropy) \o Bytes(nonce) \o Bytes(pers)
        V1 == hash_drbg_df(seed_material, HASH_DRBG_SEED_LEN)
        C1 == hash_drbg_df(<<0>> \o V1, HASH_DRBG_SEED_LEN)
    IN IF fault = "buf_malloc"
       THEN Result([st EXCEPT !.V = V1], ERR_DRBG_MEM_FAIL, <<>>)
       ELSE IF fault = "df2"
       THEN Result([st EXCEPT !.V = V1], ERR_DRBG_INTERNAL, <<>>)
       ELSE Result([st EXCEPT !.V = V1, !.C = C1, !.reseed_counter = 1,
                               !.flags = 1], ERR_DRBG_SUCCESS, <<>>)

\* hash_drbg_reseed; the second allocation failing ends in "return FAILURE"
hash_drbg_reseed(st, entropy, addl, fault) ==
  IF ~DRBG_STATE_IS_INIT(st) THEN Result(st, ERR_DRBG_NOT_INIT, <<>>)
  ELSE IF entropy.null THEN Result(st, ERR_DRBG_NULL_PTR, <<>>)
  ELSE IF entropy.len < DRBG_MIN_ENTROPY_LEN
          \/ entropy.len > DRBG_MAX_ENTROPY_LEN
  THEN Result(st, ERR_DRBG_BAD_ARGS, <<>>)
  ELSE IF addl.null /\ addl.len > 0 THEN Result(st, ERR_DRBG_NULL_PTR, <<>>)
  ELSE IF addl.len > DRBG_MAX_ENTROPY_LEN
  THEN Result(st, ERR_DRBG_BAD_ARGS, <<>>)
  ELSE IF fault = "seed_malloc" THEN Result(st, ERR_DRBG_MEM_FAIL, <<>>)
  ELSE IF fault = "df1" THEN Result(st, ERR_DRBG_INTERNAL, <<>>)
  ELSE
    LET seed_material == <<1>> \o st.V \o Bytes(entropy) \o Bytes(addl)
        V1 == hash_drbg_df(seed_material, HASH_DRBG_SEED_LEN)
        C1 == hash_drbg_df(<<0>> \o V1, HASH_DRBG_SEED_LEN)
    IN IF fault = "buf_malloc"
       THEN Result([st EXCEPT !.V = V1], FAILURE, <<>>)
       ELSE IF fault = "df2"
       THEN Result([st EXCEPT !.V = V1], ERR_DRBG_INTERNAL, <<>>)
       ELSE Result([st EXCEPT !.V = V1, !.C = C1, !.reseed_counter = 1],
                   ERR_DRBG_SUCCESS, <<>>)

\* The loop of hash_drbg_hashgen: Hash(data), data = (data + 1) mod 2^seedlen
RECURSIVE hashgen_blocks(_, _)
hashgen_blocks(data, remaining) ==
  LET md_value == SHA512(data)
  IN IF remaining < SHA512_DIGEST_LENGTH THEN SubSeq(md_value, 1, remaining)
     ELSE md_value \o hashgen_blocks(hash_drbg_add_int(data, <<1>>),
                                     remaining - SHA512_DIGEST_LENGTH)

\* hash_drbg_hashgen: its status and what the output buffer holds after it
hash_drbg_hashgen(st, out, fault) ==
  IF ~DRBG_STATE_IS_INIT(st) THEN Result(st, ERR_DRBG_NOT_INIT, Bytes(out))
  ELSE IF out.null /\ out.len > 0
  THEN Result(st, ERR_DRBG_NULL_PTR, Bytes(out))
  ELSE IF fault = "hashgen_ctx"
  THEN Result(st, ERR_DRBG_INTERNAL, Bytes(out))
  ELSE Result(st, ERR_DRBG_SUCCESS, hashgen_blocks(st.V, out.len))

\* reseed_counter as a big-endian 64-bit string
reseed_ctr(n) ==
  <<0, 0, 0, 0, (n \div 16777216) % 256, (n \div 65536) % 256,
    (n \div 256) % 256, n % 256>>

\* hash_drbg_generate; the status of hash_drbg_hashgen is not looked at
hash_drbg_generate(st, out, addl, fault) ==
  IF ~DRBG_STATE_IS_INIT(st) THEN Result(st, ERR_DRBG_NOT_INIT, Bytes(out))
  ELSE IF out.null /\ out.len > 0
  THEN Result(st, ERR_DRBG_NULL_PTR, Bytes(out))
  ELSE IF out.len > DRBG_MAX_OUT_LEN
  THEN Result(st, ERR_DRBG_BAD_ARGS, Bytes(out))
  ELSE IF addl.null /\ addl.len > 0
  THEN Result(st, ERR_DRBG_NULL_PTR, Bytes(out))
  ELSE IF addl.len > DRBG_MAX_ENTROPY_LEN
  THEN Result(st, ERR_DRBG_BAD_ARGS, Bytes(out))
  ELSE IF st.reseed_counter > DRBG_MAX_RESEED_CNT
  THEN Result(st, ERR_DRBG_DO_RESEED, Bytes(out))
  ELSE IF fault = "md_ctx" THEN Result(st, ERR_DRBG_INTERNAL, Bytes(out))
  ELSE
    LET w == SHA512(<<2>> \o st.V \o Bytes(addl))
        V1 == IF addl.len > 0 THEN hash_drbg_add_int(st.V, w) ELSE st.V
        g == hash_drbg_hashgen([st EXCEPT !.V = V1], out, fault)
        H == SHA512(<<3>> \o V1)
        V2 == hash_drbg_add_int(
                hash_drbg_add_int(hash_drbg_add_int(V1, H), st.C),
                reseed_ctr(st.reseed_counter))
    IN Result([st EXCEPT !.V = V2, !.reseed_counter = @ + 1],
              ERR_DRBG_SUCCESS, g.out)

\* AES_BLOCK_SIZE (16), AES256_KEY_SIZE (32, two blocks) and
\* CTR_DRBG_ENTROPY_LEN (48, three blocks), at a smaller scale
AES_BLOCK_SIZE == 3

AES256_KEY_SIZE == 2 * AES_BLOCK_SIZE

CTR_DRBG_ENTROPY_LEN == AES256_KEY_SIZE + AES_BLOCK_SIZE

\* sizeof(uint32_t), the size of V.words[3], at a smaller scale
CTR_DRBG_WORD_SIZE == 2

\* aes256_encr_block under the key schedule of K: an external primitive
aes256_encr_block(K, V) == SubSeq(SHA512(K \o V), 1, AES_BLOCK_SIZE)

\* The value of a word the host loads from memory: x86 is little-endian
RECURSIVE LoadWord(_)
LoadWord(bytes) ==
  IF bytes = <<>> THEN 0 ELSE Head(bytes) + 256 * LoadWord(Tail(bytes))

\* The bytes the host stores for a word of CTR_DRBG_WORD_SIZE bytes
RECURSIVE StoreWord(_, _)
StoreWord(x, size) ==
  IF size = 0 THEN <<>> ELSE <<x % 256>> \o StoreWord(x \div 256, size - 1)

RECURSIVE Reversed(_)
Reversed(bytes) ==
  IF bytes = <<>> THEN <<>> ELSE Reversed(Tail(bytes)) \o <<Head(bytes)>>

\* bswap32: the word with its bytes in the opposite order
bswap32(x) == LoadWord(Reversed(StoreWord(x, CTR_DRBG_WORD_SIZE)))

\* CTR_DRBG_INCR32, were the carry out of the last word added to the bytes
\* before it
CTR_DRBG_INCR32_Carry(V, n) ==
  Reversed(StoreWord((LoadWord(Reversed(V)) + n) % (256 ^ AES_BLOCK_SIZE),
                     AES_BLOCK_SIZE))

\* CTR_DRBG_INCR32:
\* state->V.words[3] = BSWAP32(BSWAP32(state->V.words[3]) + n);
CTR_DRBG_INCR32(V, n) ==
  LET first == AES_BLOCK_SIZE - CTR_DRBG_WORD_SIZE
      word == LoadWord(SubSeq(V, first + 1, AES_BLOCK_SIZE))
      sum == (bswap32(word) + n) % (256 ^ CTR_DRBG_WORD_SIZE)
  IN SubSeq(V, 1, first) \o StoreWord(bswap32(sum), CTR_DRBG_WORD_SIZE)

\* x[i] ^= y[i] for i < Len(y)
XorInto(x, y) ==
  SubSeq([i \in 1 .. Len(x) |->
            IF i <= Len(y) THEN BXor(x[i], y[i]) ELSE x[i]], 1, Len(x))

\* The block loops of ctr_drbg_update and ctr_drbg_generate
RECURSIVE ctr_blocks(_, _, _)
ctr_blocks(K, V, remaining) ==
  IF remaining <= 0 THEN [V |-> V, out |-> <<>>]
  ELSE LET V1 == CTR_DRBG_INCR32(V, 1)
           n == IF remaining >= AES_BLOCK_SIZE
                THEN AES_BLOCK_SIZE ELSE remaining
           rest == ctr_blocks(K, V1, remaining - n)
       IN [V |-> rest.V,
           out |-> SubSeq(aes256_encr_block(K, V1), 1, n) \o rest.out]

\* ctr_drbg_update
ctr_drbg_update(st, provided_data) ==
  IF Len(provided_data) > CTR_DRBG_ENTROPY_LEN THEN Result(st, FAILURE, <<>>)
  ELSE LET temp == XorInto(ctr_blocks(st.K, st.V, CTR_DRBG_ENTROPY_LEN).out,
                           provided_data)
       IN Result([st EXCEPT
                    !.K = SubSeq(temp, 1, AES256_KEY_SIZE),
                    !.V = SubSeq(temp, AES256_KEY_SIZE + 1,
                                 CTR_DRBG_ENTROPY_LEN)], SUCCESS, <<>>)

\* ctr_drbg_init
ctr_drbg_init(st, entropy, pers) ==
  IF pers.len > CTR_DRBG_ENTROPY_LEN THEN Result(st, FAILURE, <<>>)
  ELSE LET seed_material == XorInto(Bytes(entropy), Bytes(pers))
           st0 == [st EXCEPT !.K = Filled(AES256_KEY_SIZE, 0),
                             !.V = Filled(AES_BLOCK_SIZE, 0)]
           r == ctr_drbg_update(st0, seed_material)
       IN IF r.ret # SUCCESS THEN Result(r.st, FAILURE, <<>>)
          ELSE Result([r.st EXCEPT !.reseed_counter = 1], SUCCESS, <<>>)

\* ctr_drbg_reseed
ctr_drbg_reseed(st, entropy, addl) ==
  IF addl.len > CTR_DRBG_ENTROPY_LEN THEN Result(st, FAILURE, <<>>)
  ELSE LET seed_material == XorInto(Bytes(entropy), Bytes(addl))
           r == ctr_drbg_update(st, seed_material)
       IN IF r.ret # SUCCESS THEN Result(r.st, FAILURE, <<>>)
          ELSE Result([r.st EXCEPT !.reseed_counter = 1], SUCCESS, <<>>)

\* ctr_drbg_generate, were the update after the output made only for a
\* caller that passed additional input
ctr_drbg_generate_NoFinalUpdate(st, out, addl) ==
  IF out.len > DRBG_MAX_OUT_LEN THEN Result(st, FAILURE, Bytes(out))
  ELSE IF addl.len > CTR_DRBG_ENTROPY_LEN
  THEN Result(st, FAILURE, Bytes(out))
  ELSE IF st.reseed_counter > DRBG_MAX_RESEED_CNT
  THEN Result(st, FAILURE, Bytes(out))
  ELSE
    LET pre == IF addl.len > 0 THEN ctr_drbg_update(st, Bytes(addl)).st
               ELSE st
        g == ctr_blocks(pre.K, pre.V, out.len)
        post == IF addl.len > 0
                THEN ctr_drbg_update([pre EXCEPT !.V = g.V], Bytes(addl)).st
                ELSE [pre EXCEPT !.V = g.V]
    IN Result([post EXCEPT !.reseed_counter = @ + 1], SUCCESS, g.out)

\* ctr_drbg_generate
ctr_drbg_generate(st, out, addl) ==
  IF out.len > DRBG_MAX_OUT_LEN THEN Result(st, FAILURE, Bytes(out))
  ELSE IF addl.len > CTR_DRBG_ENTROPY_LEN
  THEN Result(st, FAILURE, Bytes(out))
  ELSE IF st.reseed_counter > DRBG_MAX_RESEED_CNT
  THEN Result(st, FAILURE, Bytes(out))
  ELSE
    LET pre == IF addl.len > 0 THEN ctr_drbg_update(st, Bytes(addl)).st
               ELSE st
        g == ctr_blocks(pre.K, pre.V, out.len)
        post == ctr_drbg_update([pre EXCEPT !.V = g.V], Bytes(addl)).st
    IN Result([post EXCEPT !.reseed_counter = @ + 1], SUCCESS, g.out)

\* ctr_drbg_clear: zeroize((uint8_t *)state, sizeof(CTR_DRBG_STATE));
ctr_drbg_clear(st) ==
  [st EXCEPT !.K = Filled(AES256_KEY_SIZE, 0),
             !.V = Filled(AES_BLOCK_SIZE, 0),
             !.reseed_counter = 0]

\* hash_drbg_new, hmac_drbg_new and a CTR_DRBG_STATE on the stack: memory that
\* nobody has cleared, here every byte of it b
NewState(alg, b) ==
  [alg |-> alg,
   K |-> IF alg = "hash" THEN <<>>
         ELSE IF alg = "ctr" THEN Filled(AES256_KEY_SIZE, b)
         ELSE Filled(SHA512_DIGEST_LENGTH, b),
   V |-> IF alg = "hash" THEN Filled(HASH_DRBG_SEED_LEN, b)
         ELSE IF alg = "ctr" THEN Filled(AES_BLOCK_SIZE, b)
         ELSE Filled(SHA512_DIGEST_LENGTH, b),
   C |-> IF alg = "hash" THEN Filled(HASH_DRBG_SEED_LEN, b) ELSE <<>>,
   reseed_counter |-> IF b = 0 THEN 0 ELSE DRBG_MAX_RESEED_CNT + 1,
   flags |-> IF alg = "ctr" THEN 0 ELSE b]

\* Buffers a caller passes; Good* are within every limit
GoodEntropy == Arg(FALSE, DRBG_MIN_ENTROPY_LEN, 0)

GoodNonce == Arg(FALSE, DRBG_MAX_NONCE_LEN, 0)

GoodAddl == Arg(FALSE, 1, 0)

GoodOutput == Arg(FALSE, DRBG_MAX_OUT_LEN, 0)

NullWithLen == Arg(TRUE, 1, 0)

SeedArgs(entropy, nonce, addl) ==
  [entropy |-> entropy, nonce |-> nonce, addl |-> addl]

\* Arguments of init: good ones, and ones with one argument null, at its limit
\* or beyond it
InitArgs ==
  {SeedArgs(GoodEntropy, GoodNonce, NoArg),
   SeedArgs(GoodEntropy, GoodNonce, GoodAddl),
   SeedArgs(NoArg, GoodNonce, NoArg),
   SeedArgs(Arg(FALSE, DRBG_MAX_ENTROPY_LEN, 0), GoodNonce, NoArg),
   SeedArgs(Arg(FALSE, DRBG_MAX_ENTROPY_LEN + 1, 0), GoodNonce, NoArg),
   SeedArgs(GoodEntropy, NoArg, NoArg),
   SeedArgs(GoodEntropy, Arg(FALSE, DRBG_MAX_NONCE_LEN + 1, 0), NoArg),
   SeedArgs(GoodEntropy, GoodNonce, NullWithLen),
   SeedArgs(GoodEntropy, GoodNonce, Arg(FALSE, DRBG_MAX_ENTROPY_LEN + 1, 0))}

\* Arguments of reseed
ReseedArgs ==
  {SeedArgs(GoodEntropy, NoArg, NoArg),
   SeedArgs(GoodEntropy, NoArg, GoodAddl),
   SeedArgs(NoArg, NoArg, NoArg),
   SeedArgs(Arg(FALSE, DRBG_MAX_ENTROPY_LEN + 1, 0), NoArg, NoArg),
   SeedArgs(GoodEntropy, NoArg, NullWithLen)}

GenerateArgs(output, addl) == [output |-> output, addl |-> addl]

\* Arguments of generate
GenArgs ==
  {GenerateArgs(GoodOutput, NoArg),
   GenerateArgs(GoodOutput, GoodAddl),
   GenerateArgs(Arg(FALSE, SHA512_DIGEST_LENGTH - 1, 0), NoArg),
   GenerateArgs(NullWithLen, NoArg),
   GenerateArgs(Arg(FALSE, DRBG_MAX_OUT_LEN + 1, 0), NoArg),
   GenerateArgs(GoodOutput, NullWithLen),
   GenerateArgs(GoodOutput, Arg(FALSE, DRBG_MAX_ENTROPY_LEN + 1, 0))}

\* Arguments of the CTR_DRBG calls, which take the entropy as an array and
\* no null buffer with a length
CtrEntropy == Arg(FALSE, CTR_DRBG_ENTROPY_LEN, 0)

CtrSeedArgs ==
  {SeedArgs(CtrEntropy, NoArg, NoArg),
   SeedArgs(CtrEntropy, NoArg, GoodAddl),
   SeedArgs(CtrEntropy, NoArg, Arg(FALSE, CTR_DRBG_ENTROPY_LEN + 1, 0))}

CtrGenArgs ==
  {GenerateArgs(GoodOutput, NoArg),
   GenerateArgs(GoodOutput, GoodAddl),
   GenerateArgs(Arg(FALSE, AES_BLOCK_SIZE - 1, 0), NoArg),
   GenerateArgs(Arg(FALSE, AES_BLOCK_SIZE, 0), NoArg),
   GenerateArgs(Arg(FALSE, 0, 0), GoodAddl),
   GenerateArgs(Arg(FALSE, DRBG_MAX_OUT_LEN + 1, 0), NoArg),
   GenerateArgs(GoodOutput, Arg(FALSE, CTR_DRBG_ENTROPY_LEN + 1, 0))}

\* The allocation or library call that fails inside a call, if one does
HmacSeedFaults ==
  {[at |-> "seed", f |-> f] : f \in {"none", "seed_malloc", "hmac2"}}

HmacGenerateFaults ==
  {NoFault, [at |-> "pre", f |-> "hmac2"], [at |-> "block", f |-> "hmac"],
   [at |-> "post", f |-> "malloc"], [at |-> "post", f |-> "hmac3"]}

HashSeedFaults ==
  {[at |-> "seed", f |-> f] :
     f \in {"none", "seed_malloc", "buf_malloc", "df2"}}

HashGenerateFaults ==
  {NoFault, [at |-> "generate", f |-> "md_ctx"],
   [at |-> "hashgen", f |-> "hashgen_ctx"]}

\* The status that means success: ERR_*_SUCCESS, or SUCCESS of status_t
Succeeded(alg, ret) ==
  IF alg = "ctr" THEN ret = SUCCESS ELSE ret = ERR_DRBG_SUCCESS

drbgFrame ==
  <<rngVars, pc, loc, alive, nPolls, nFaults, nAdded, nSinceMix, ctr, tv>>

\* One call on the generator: the state struct, the status and the output
\* buffer it leaves, and the count of generates the caller has seen succeed
DrbgCall(op, r, entropy, nonce, addl, output, fault) ==
  /\ drbg' = r.st
  /\ call' = [op |-> op, ret |-> r.ret, out |-> r.out, fault |-> fault,
              entropy |-> entropy, nonce |-> nonce, addl |-> addl,
              output |-> output, on |-> drbg]
  /\ nGenerated' =
       IF ~Succeeded(drbg.alg, r.ret) THEN nGenerated
       ELSE IF op # "generate" THEN 0
       ELSE IF nGenerated < 0 THEN nGenerated
       ELSE nGenerated + 1
  /\ instantiated' =
       (instantiated \/ (op = "init" /\ Succeeded(drbg.alg, r.ret)))
  /\ UNCHANGED drbgFrame

HmacDrbgInit ==
  /\ drbg.alg = "hmac"
  /\ \E a \in InitArgs, fault \in HmacSeedFaults :
       DrbgCall("init",
                hmac_drbg_init(drbg, a.entropy, a.nonce, a.addl, fault.f),
                a.entropy, a.nonce, a.addl, NoArg, fault)

HmacDrbgReseed ==
  /\ drbg.alg = "hmac"
  /\ \E a \in ReseedArgs, fault \in HmacSeedFaults :
       DrbgCall("reseed", hmac_drbg_reseed(drbg, a.entropy, a.addl, fault.f),
                a.entropy, NoArg, a.addl, NoArg, fault)

HmacDrbgGenerate ==
  /\ drbg.alg = "hmac"
  /\ \E a \in GenArgs, fault \in HmacGenerateFaults :
       DrbgCall("generate", hmac_drbg_generate(drbg, a.output, a.addl, fault),
                NoArg, NoArg, a.addl, a.output, fault)

HashDrbgInit ==
  /\ drbg.alg = "hash"
  /\ \E a \in InitArgs, fault \in HashSeedFaults :
       DrbgCall("init",
                hash_drbg_init(drbg, a.entropy, a.nonce, a.addl, fault.f),
                a.entropy, a.nonce, a.addl, NoArg, fault)

HashDrbgReseed ==
  /\ drbg.alg = "hash"
  /\ \E a \in ReseedArgs, fault \in HashSeedFaults :
       DrbgCall("reseed", hash_drbg_reseed(drbg, a.entropy, a.addl, fault.f),
                a.entropy, NoArg, a.addl, NoArg, fault)

HashDrbgGenerate ==
  /\ drbg.alg = "hash"
  /\ \E a \in GenArgs, fault \in HashGenerateFaults :
       DrbgCall("generate",
                hash_drbg_generate(drbg, a.output, a.addl, fault.f),
                NoArg, NoArg, a.addl, a.output, fault)

\* The CTR_DRBG has no step that can fail
CtrDrbgInit ==
  /\ drbg.alg = "ctr"
  /\ \E a \in CtrSeedArgs :
       DrbgCall("init", ctr_drbg_init(drbg, a.entropy, a.addl),
                a.entropy, NoArg, a.addl, NoArg, NoFault)

CtrDrbgReseed ==
  /\ drbg.alg = "ctr"
  /\ \E a \in CtrSeedArgs :
       DrbgCall("reseed", ctr_drbg_reseed(drbg, a.entropy, a.addl),
                a.entropy, NoArg, a.addl, NoArg, NoFault)

CtrDrbgGenerate ==
  /\ drbg.alg = "ctr"
  /\ \E a \in CtrGenArgs :
       DrbgCall("generate", ctr_drbg_generate(drbg, a.output, a.addl),
                NoArg, NoArg, a.addl, a.output, NoFault)

\* ctr_drbg_clear returns nothing
CtrDrbgClear ==
  /\ drbg.alg = "ctr"
  /\ drbg' = ctr_drbg_clear(drbg)
  /\ call' = [NoCall EXCEPT !.op = "clear", !.on = drbg]
  /\ nGenerated' = -1
  /\ instantiated' = FALSE
  /\ UNCHANGED drbgFrame

DrbgInit ==
  /\ PoolNotStarted
  /\ nAdded = 0
  /\ nSinceMix = 0
  /\ \E alg \in {"ctr", "hash", "hmac"}, b \in {0, 255} :
       drbg = NewState(alg, b)
  /\ call = NoCall
  /\ nGenerated = -1
  /\ instantiated = FALSE
  /\ NoTrivium

DrbgNext ==
  \/ HmacDrbgInit
  \/ HmacDrbgReseed
  \/ HmacDrbgGenerate
  \/ HashDrbgInit
  \/ HashDrbgReseed
  \/ HashDrbgGenerate
  \/ CtrDrbgInit
  \/ CtrDrbgReseed
  \/ CtrDrbgGenerate
  \/ CtrDrbgClear

DrbgSpec == DrbgInit /\ [][DrbgNext]_vars

(***************************************************************************)
(* hash_drbg_add_int alone: one addition to a V of HASH_DRBG_SEED_LEN      *)
(* bytes, for each V and N of a family that has the carries pass through   *)
(* every byte and out of V.                                                *)
(***************************************************************************)
\* The byte strings of length n over the bytes in S
RECURSIVE Strings(_, _)
Strings(S, n) ==
  IF n = 0 THEN {<<>>}
  ELSE {<<b>> \o t : b \in S, t \in Strings(S, n - 1)}

AddIntValues == Strings({0, 128, 255}, HASH_DRBG_SEED_LEN)

\* N of every length the callers may pass, 1 .. HASH_DRBG_SEED_LEN
AddIntOperands ==
  UNION {Strings({0, 255}, len) : len \in 1 .. HASH_DRBG_SEED_LEN}

AddIntInit ==
  /\ PoolNotStarted
  /\ nAdded = 0
  /\ nSinceMix = 0
  /\ drbg \in {[alg |-> "add_int", V |-> V] : V \in AddIntValues}
  /\ call = NoCall
  /\ nGenerated = -1
  /\ instantiated = FALSE
  /\ NoTrivium

\* hash_drbg_add_int(V, N, len); call.out keeps N
HashDrbgAddInt ==
  /\ drbg.alg = "add_int"
  /\ call.op = "none"
  /\ \E N \in AddIntOperands :
       /\ drbg' = [drbg EXCEPT !.V = hash_drbg_add_int(drbg.V, N)]
       /\ call' = [NoCall EXCEPT !.op = "add_int", !.out = N, !.on = drbg]
  /\ UNCHANGED <<nGenerated, instantiated, drbgFrame>>

AddIntNext == HashDrbgAddInt

AddIntSpec == AddIntInit /\ [][AddIntNext]_vars

(***************************************************************************)
(* The stream generator (trivium.c) on a started pool.  A TriviumRand call *)
(* that finds the counter at the period, or at -1, first fetches a new IV  *)
(* from the pool (trivium_set_seed), by the steps of RandFetchBytes, and   *)
(* then emits its bits; one thread calls.                                  *)
(***************************************************************************)
\* TRIVIUM_RESEED_PERIOD (1ULL << 20), at a smaller scale
TRIVIUM_RESEED_PERIOD == 128

\* TRIVIUM_IV_SIZE (10), within the scaled pool
TRIVIUM_IV_SIZE == 2

\* if (ctr >= TRIVIUM_RESEED_PERIOD || ctr == -1)
NeedsSeed == ctr >= TRIVIUM_RESEED_PERIOD \/ ctr = -1

triviumFrame ==
  <<rngVars, pc, loc, alive, nPolls, nFaults, nAdded, nSinceMix, drbg, call,
    nGenerated, instantiated>>

\* TriviumRand8/16/32/64 up to the call of RngFetchBytes, or to their end
\* when no seed is due: for (i < n) { TRIVIUM_UPDATE_ROTATE ... } ctr += n;
TriviumRand(n) ==
  /\ alive
  /\ pc[MainThread] = "idle"
  /\ tv.pending = 0
  /\ IF NeedsSeed
     THEN /\ CallsMade < MaxCalls
          /\ tv' = [tv EXCEPT !.pending = n,
                              !.calls0 = loc[MainThread].calls]
          /\ ctr' = ctr
     ELSE /\ ctr' = ctr + n
          /\ tv' = [tv EXCEPT !.bits = @ + n]
  /\ UNCHANGED triviumFrame

TriviumRand8 == TriviumRand(8)

TriviumRand16 == TriviumRand(16)

TriviumRand32 == TriviumRand(32)

TriviumRand64 == TriviumRand(64)

\* trivium_set_seed: (void)RngFetchBytes(iv, TRIVIUM_IV_SIZE);
trivium_set_seed ==
  /\ tv.pending > 0
  /\ loc[MainThread].calls = tv.calls0
  /\ RandFetchBytes_Call(MainThread, FALSE, TRIVIUM_IV_SIZE, TRUE)

\* The rest of trivium_set_seed, whatever the fetch returned (ctr = 0;
\* trivium_init(...)), and the rest of the TriviumRand call
TriviumRand_Seeded ==
  /\ alive
  /\ tv.pending > 0
  /\ loc[MainThread].calls > tv.calls0
  /\ pc[MainThread] = "idle"
  /\ ctr' = 0 + tv.pending
  /\ tv' = [tv EXCEPT !.pending = 0, !.bits = tv.pending, !.seeds = @ + 1]
  /\ UNCHANGED triviumFrame

TriviumInit == CollectorInit

TriviumNext ==
  \/ TriviumRand8
  \/ TriviumRand16
  \/ TriviumRand32
  \/ TriviumRand64
  \/ trivium_set_seed
  \/ RandFetchBytes_Enter(MainThread)
  \/ RandFetchBytes_SlowPoll(MainThread)
  \/ RandFetchBytes_UserEvents(MainThread)
  \/ RandFetchBytes_FastPoll1(MainThread)
  \/ RandFetchBytes_Pass1(MainThread)
  \/ RandFetchBytes_Invert(MainThread)
  \/ RandFetchBytes_FastPoll2(MainThread)
  \/ RandFetchBytes_Pass2(MainThread)
  \/ RandFetchBytes_Cleanup(MainThread)
  \/ TriviumRand_Seeded

TriviumSpec == TriviumInit /\ [][TriviumNext]_vars

(***************************************************************************)
(* Properties                                                              *)
(***************************************************************************)
\* A fetch at its cleanup label is about to leave the critical section and
\* return loc[c].ret
Returning(c) == pc[c] = "f_cleanup"

C2_WritersOwnCritSec ==
  /\ fpPc = "in_cs" => randCritSec.owner = FP
  /\ \A c \in Callers :
       pc[c] \in (FetchPcs \ {"f_enter"}) \cup {"mix_block"}
         => randCritSec.owner = c

\* The stages of a fetch: everything it logs but the bytes a poll adds
IsStage(x) == x # "add"

LastStages(st, n) ==
  LET g == SelectSeq(st, IsStage)
  IN IF Len(g) < n THEN <<>> ELSE SubSeq(g, Len(g) - n + 1, Len(g))

\* C3: a successful fetch runs, with the critical section held from its
\* entry to its cleanup, mix, pass 1, invert, mix, pass 2, final mix in this
\* order, and neither the fast-poll thread nor another fetch changes the pool
\* between pass 1 and the final mix.
C3_FetchSequence ==
  \A c \in Callers :
    /\ pc[c] \in FetchPcs \ {"f_enter"} => randCritSec.owner = c
    /\ (Returning(c) /\ loc[c].ret = "TRUE") =>
         /\ LastStages(loc[c].steps, 6)
              = <<"mix", "pass1", "invert", "mix", "pass2", "mix">>
         /\ loc[c].foreign \cap {"fastpoll", "fetch"} = {}

\* A fetch succeeds while the fetch of another thread waits to enter
C3_Witness ==
  \E c, d \in Callers :
    /\ c # d
    /\ Returning(c)
    /\ loc[c].ret = "TRUE"
    /\ pc[d] = "f_enter"

\* C4: a stop sets the control flag, waits until the thread has exited, and
\* only then zeroes the pool; the pool is zero when it is freed; the thread
\* neither adds to the pool nor mixes it once the scrubbing has begun.
C4_StopOrder ==
  \A c \in Callers :
    /\ pc[c] = "stop_wait" => bTerminateFastPollThread \/ fpPc = "exited"
    /\ pc[c] \in {"stop_close", "stop_zero", "stop_free"}
         => fpPc \notin {"ready", "in_cs"}
    /\ pc[c] = "stop_free" => pRandPool = ZeroPool

\* A stop has zeroed the pool of a generator whose thread had polled
C4_Witness ==
  \E c \in Callers :
    /\ pc[c] = "stop_free"
    /\ loc[c].op = "stop"
    /\ nPolls > 0
    /\ fpPc = "none"

\* C5: once a stop has set the control flag, the thread eventually exits and
\* the stop returns with bDidRandPoolInit FALSE.
C5_StopReturns ==
  \A c \in Callers :
    (pc[c] = "stop_wait") ~> (pc[c] = "idle" /\ ~bDidRandPoolInit)

\* A stop has returned after the thread it signalled has exited
C5_Witness ==
  \E c \in Callers :
    /\ pc[c] = "idle"
    /\ loc[c].op = "stop"
    /\ loc[c].calls > 1
    /\ ~bDidRandPoolInit
    /\ ~bTerminateFastPollThread

\* The slow poll of the fetch of c ran and returned r ("TRUE" or "FALSE")
SlowPollReturned(c, r) ==
  /\ Len(loc[c].steps) >= 2
  /\ loc[c].steps[1] = "slowpoll"
  /\ loc[c].steps[2] = r

BufferUntouched(c) == loc[c].data = PriorData(loc[c].len)

\* C6, as stated: a fetch entered with bDidSlowPoll FALSE and forceSlowPoll
\* FALSE returns failure and leaves the buffer of the caller as it was.
C6_UnforcedFetchFails ==
  \A c \in Callers :
    (Returning(c) /\ ~loc[c].slowAtEntry /\ ~loc[c].force)
      => (loc[c].ret = "FALSE" /\ BufferUntouched(c))

\* C6, amended: a fetch entered with bDidSlowPoll FALSE runs the slow poll
\* even when forceSlowPoll is FALSE; it returns failure with the buffer as it
\* was when that slow poll fails.
C6_UnforcedFetchPolls ==
  \A c \in Callers :
    (Returning(c) /\ ~loc[c].slowAtEntry /\ ~loc[c].force)
      => /\ SlowPollReturned(c, "TRUE") \/ SlowPollReturned(c, "FALSE")
         /\ SlowPollReturned(c, "FALSE")
              => (loc[c].ret = "FALSE" /\ BufferUntouched(c))

\* An unforced first fetch whose slow poll failed
C6_Witness ==
  \E c \in Callers :
    /\ Returning(c)
    /\ ~loc[c].slowAtEntry
    /\ ~loc[c].force
    /\ SlowPollReturned(c, "FALSE")

\* C7, as stated: a fetch made while the pool is not initialized returns
\* FALSE, and no fetch ends the process.
C7_NoFetchKills ==
  \A c \in Callers : loc[c].op = "fetch" => pc[c] # "killed"

\* C7, amended: a fetch with a buffer and a length within the pool, made
\* while the pool is not initialized, ends the process with a fatal error; a
\* fetch goes on only when the pool is initialized, and then the process
\* lives through every failure; a fetch with a null buffer or a length beyond
\* the pool returns FALSE.
C7_OnlyUninitializedFetchKills ==
  \A c \in Callers :
    loc[c].op = "fetch" =>
      /\ pc[c] = "killed" =>
           /\ ~alive
           /\ ~bDidRandPoolInit
           /\ ~loc[c].dataNull
           /\ loc[c].len <= RNG_POOL_SIZE
      /\ pc[c] \in FetchPcs => (bDidRandPoolInit /\ alive)
      /\ (pc[c] = "idle" /\ (loc[c].dataNull \/ loc[c].len > RNG_POOL_SIZE))
           => loc[c].ret = "FALSE"

\* A fetch after a stop has ended the process
C7_Witness ==
  \E c \in Callers :
    /\ loc[c].op = "fetch"
    /\ pc[c] = "killed"
    /\ loc[c].calls > 2

XorSeq(a, b) == SubSeq([i \in 1 .. Len(a) |-> BXor(a[i], b[i])], 1, Len(a))

\* C8: whenever a fetch returns, with success or with failure, every byte it
\* has written to the buffer of the caller is the XOR of a byte of pass 1
\* and a byte of pass 2.
C8_BufferIsXorOfPasses ==
  \A c \in Callers :
    (Returning(c) /\ ~BufferUntouched(c))
      => /\ loc[c].passes = 2
         /\ loc[c].data = XorSeq(loc[c].snap1, loc[c].snap2)

\* A call of RandPoolInit by c begins in this step
InitCallBegins(c) ==
  /\ loc'[c].op = "init"
  /\ loc'[c].calls = loc[c].calls + 1

\* C9: a start made while the generator is initialized returns success at
\* once; it changes nothing of the pool, the flags, the handles and the
\* critical section, and creates no second thread.
C9_SecondStartIsNoOp ==
  [][\A c \in Callers :
       (bDidRandPoolInit /\ InitCallBegins(c))
         => /\ UNCHANGED rngVars
            /\ loc'[c].ret = "TRUE"
            /\ pc'[c] = "idle"]_vars

\* A second start has returned while the thread of the first one runs and
\* the write cursor has moved
C9_Witness ==
  \E c \in Callers :
    /\ loc[c].op = "init"
    /\ loc[c].steps = <<"again">>
    /\ pc[c] = "idle"
    /\ fpPc \in {"ready", "in_cs"}
    /\ nCurrentPoolWritePos > 0

\* C10: bDidSlowPoll changes from FALSE to TRUE only in the step of a fetch
\* whose slow poll succeeded, and back to FALSE only at the end of a stop: a
\* failed slow poll, a fast poll, an addition and a mix leave it as it is, so
\* that it is set at most once between a start and the next stop.
C10_SlowPollFlagSetOnce ==
  [][bDidSlowPoll' # bDidSlowPoll =>
       \/ /\ ~bDidSlowPoll
          /\ \E c \in Callers : pc[c] = "f_slow" /\ pc'[c] = "f_events"
       \/ /\ bDidSlowPoll
          /\ \E c \in Callers : pc[c] = "stop_free" /\ pc'[c] = "idle"]_vars

\* A forced slow poll has failed after an earlier one had succeeded, and the
\* flag is still set
C10_Witness ==
  \E c \in Callers :
    /\ Returning(c)
    /\ loc[c].slowAtEntry
    /\ SlowPollReturned(c, "FALSE")
    /\ bDidSlowPoll

\* C11: adding a byte b never overwrites pool content: the byte at the write
\* cursor (the cursor wraps to 0 at RNG_POOL_SIZE) becomes its old value XOR
\* b, the write cursor ends one past it, and apart from a triggered mix no
\* other pool byte changes; the read cursor and the flags do not change.
C11_AddXorsAtCursor ==
  [][\A x \in Add8Bytes :
       Add8(x) =>
         LET w == IF nCurrentPoolWritePos = RNG_POOL_SIZE
                  THEN 0 ELSE nCurrentPoolWritePos
         IN /\ nCurrentPoolWritePos' = w + 1
            /\ \E base \in {pRandPool, RandPoolMix(pRandPool)} :
                 pRandPool' = [base EXCEPT ![w + 1] = BXor(base[w + 1], x)]
            /\ UNCHANGED <<nCurrentPoolReadPos, flagVars>>]_vars

\* The cursor has wrapped: a byte was added at offset 0 of a pool that was
\* full, onto a byte that was not zero
C11_Witness ==
  /\ nAdded = RNG_POOL_SIZE + 1
  /\ nCurrentPoolWritePos = 1
  /\ pRandPool[1] \notin {0, 165}

\* C12: in any sequence of byte additions, across the wrap of the write
\* cursor and whatever mixes come from elsewhere, the pool is mixed once
\* RNG_POOL_MIX_INTERVAL bytes have been written and before the next byte is
\* written: no more than RNG_POOL_MIX_INTERVAL bytes are written to the pool
\* between two consecutive mixes.
C12_MixEveryInterval == nSinceMix <= RNG_POOL_MIX_INTERVAL

\* A full interval has been written since the mix made when the cursor wrapped
C12_Witness ==
  /\ nAdded = RNG_POOL_SIZE + RNG_POOL_MIX_INTERVAL
  /\ nCurrentPoolWritePos = RNG_POOL_MIX_INTERVAL
  /\ nSinceMix = RNG_POOL_MIX_INTERVAL

\* The pool p after the steps 0 .. i-1 of a mix
RECURSIVE PoolAfterSteps(_, _)
PoolAfterSteps(p, i) ==
  IF i = 0 THEN p
  ELSE LET q == PoolAfterSteps(p, i - 1)
           H == SHA512(q)
           lo == (i - 1) * SHA512_DIGEST_LENGTH
       IN [k \in 1 .. RNG_POOL_SIZE |->
             IF k > lo /\ k <= lo + SHA512_DIGEST_LENGTH
             THEN BXor(q[k], H[k - lo]) ELSE q[k]]

\* C20: a mix goes through the blocks i = 0 .. n-1 in order; at step i it
\* hashes the entire pool as the steps before left it and XORs the digest
\* into block i only, so that byte k of block i ends as its value before the
\* mix XOR byte k of that digest; the cursors and the flags do not change,
\* and the pool after the mix depends on the pool bytes before it alone.
C20_MixBlockByBlock ==
  [][RngMix =>
       /\ pRandPool' = PoolAfterSteps(pRandPool, RNG_POOL_CHUNKS)
       /\ \A i \in 0 .. RNG_POOL_CHUNKS - 1 :
            \A j \in 1 .. SHA512_DIGEST_LENGTH :
              pRandPool'[i * SHA512_DIGEST_LENGTH + j]
                = BXor(pRandPool[i * SHA512_DIGEST_LENGTH + j],
                       SHA512(PoolAfterSteps(pRandPool, i))[j])
       /\ UNCHANGED <<nCurrentPoolWritePos, nCurrentPoolReadPos, flagVars>>
    ]_vars

\* The pool was mixed from outside with the write cursor inside a block
C20_Witness ==
  /\ nAdded = 3
  /\ nSinceMix = 0
  /\ nCurrentPoolWritePos = 3
  /\ pRandPool # ZeroPool

\* C13: for the CTR_DRBG, the Hash_DRBG and the HMAC_DRBG, an init or a reseed
\* that returns success leaves reseed_counter at 1, a generate that returns
\* success increases it by exactly 1, a generate that returns an error leaves
\* it as it was; hence reseed_counter is 1 + the number of successful
\* generates since the last (re)seed.
C13_ReseedCounterDiscipline ==
  [][LET ok == Succeeded(drbg.alg, call'.ret)
     IN /\ (call'.op \in {"init", "reseed"} /\ ok)
             => drbg'.reseed_counter = 1
        /\ (call'.op = "generate" /\ ok)
             => drbg'.reseed_counter = drbg.reseed_counter + 1
        /\ (call'.op = "generate" /\ ~ok)
             => drbg'.reseed_counter = drbg.reseed_counter
        /\ nGenerated' >= 0 => drbg'.reseed_counter = 1 + nGenerated']_vars

\* A generate call on st in which nothing fails
GenerateOf(st, output, addl) ==
  IF st.alg = "hmac" THEN hmac_drbg_generate(st, output, addl, NoFault)
  ELSE IF st.alg = "hash" THEN hash_drbg_generate(st, output, addl, "none")
  ELSE ctr_drbg_generate(st, output, addl)

\* Arguments of generate that pass every check on the arguments
ValidGenArgs(output, addl) ==
  /\ ~(output.null /\ output.len > 0)
  /\ output.len <= DRBG_MAX_OUT_LEN
  /\ ~(addl.null /\ addl.len > 0)
  /\ addl.len <= DRBG_MAX_ENTROPY_LEN

\* C14: on an instantiated Hash_DRBG or HMAC_DRBG, generate with valid
\* arguments returns DO_RESEED exactly when reseed_counter is above the limit
\* (a counter equal to the limit is still served), and after a reseed that
\* returned success a generate with valid arguments returns SUCCESS.
C14_ReseedRequiredAboveLimit ==
  [][LET served == /\ drbg.alg \in {"hash", "hmac"}
                   /\ call'.op = "generate"
                   /\ DRBG_STATE_IS_INIT(drbg)
                   /\ ValidGenArgs(call'.output, call'.addl)
         above == drbg.reseed_counter > DRBG_MAX_RESEED_CNT
         reseeded == /\ drbg.alg \in {"hash", "hmac"}
                     /\ call'.op = "reseed"
                     /\ call'.ret = ERR_DRBG_SUCCESS
     IN /\ served => (call'.ret = ERR_DRBG_DO_RESEED <=> above)
        /\ (served /\ ~above /\ call'.fault = NoFault)
             => call'.ret = ERR_DRBG_SUCCESS
        /\ reseeded
             => \A a \in GenArgs :
                  ValidGenArgs(a.output, a.addl)
                    => GenerateOf(drbg', a.output, a.addl).ret
                         = ERR_DRBG_SUCCESS]_vars

\* The statuses that report an invalid argument or a required reseed; the
\* CTR_DRBG has the single status FAILURE, returned only from such checks
RefusedCall(alg, ret) ==
  IF alg = "ctr" THEN ret = FAILURE
  ELSE ret \in {ERR_DRBG_NULL_PTR, ERR_DRBG_BAD_ARGS, ERR_DRBG_DO_RESEED}

\* C15: an init, reseed or generate call that returns an invalid-argument
\* status or DO_RESEED leaves K, V, C, reseed_counter and flags as they were,
\* so that a following generate with valid arguments gives the bytes it
\* would have given without the failing call.
C15_RefusedCallKeepsState ==
  [][RefusedCall(drbg.alg, call'.ret)
       => /\ drbg' = drbg
          /\ \A a \in GenArgs :
               ValidGenArgs(a.output, a.addl)
                 => GenerateOf(drbg', a.output, a.addl).out
                      = GenerateOf(drbg, a.output, a.addl).out]_vars

\* Every byte of the state struct is zero
Scrubbed(st) ==
  /\ \A i \in 1 .. Len(st.K) : st.K[i] = 0
  /\ \A i \in 1 .. Len(st.V) : st.V[i] = 0
  /\ \A i \in 1 .. Len(st.C) : st.C[i] = 0
  /\ st.reseed_counter = 0
  /\ st.flags = 0

\* C16: when a hash or HMAC primitive or an allocation fails inside a generate
\* call of the Hash_DRBG or the HMAC_DRBG, the state is scrubbed (every byte
\* zero, no longer instantiated) when generate returns its failure status.
C16_FailedGenerateScrubs ==
  [][(/\ drbg.alg \in {"hash", "hmac"}
      /\ call'.op = "generate"
      /\ call'.ret \in {ERR_DRBG_INTERNAL, ERR_DRBG_MEM_FAIL})
       => Scrubbed(drbg')]_vars

\* The seven status codes of the Hash_DRBG
HashDrbgCodes ==
  {ERR_DRBG_SUCCESS, ERR_DRBG_NOT_INIT, ERR_DRBG_NULL_PTR, ERR_DRBG_BAD_ARGS,
   ERR_DRBG_INTERNAL, ERR_DRBG_MEM_FAIL, ERR_DRBG_DO_RESEED}

\* C17: hash_drbg_init, hash_drbg_reseed and hash_drbg_generate return one of
\* the seven codes on every path, and 0 only when the operation completed: a
\* (re)seed has left C = Hash_df(0x00 || V), reseed_counter = 1 and the state
\* instantiated; a generate has written the out_len bytes and advanced the
\* state as a call in which nothing fails does.
C17_HashDrbgStatusCodes ==
  [][(drbg.alg = "hash" /\ call'.op # "none")
       => /\ call'.ret \in HashDrbgCodes
          /\ (call'.op \in {"init", "reseed"} /\ call'.ret = ERR_DRBG_SUCCESS)
               => /\ drbg'.C = hash_drbg_df(<<0>> \o drbg'.V,
                                            HASH_DRBG_SEED_LEN)
                  /\ drbg'.reseed_counter = 1
                  /\ DRBG_STATE_IS_INIT(drbg')
          /\ (call'.op = "generate" /\ call'.ret = ERR_DRBG_SUCCESS)
               => LET r == GenerateOf(drbg, call'.output, call'.addl)
                  IN call'.out = r.out /\ drbg' = r.st]_vars

\* C18: across any sequence of TriviumRand8/16/32/64 calls, the stream
\* generator takes a new seed only once TRIVIUM_RESEED_PERIOD bytes have been
\* emitted from the seed before, and never emits more than that many bytes
\* from one seed.
C18_ReseedEveryPeriodBytes ==
  [][/\ (tv'.seeds > tv.seeds /\ tv.seeds >= 1)
          => tv.bits >= 8 * TRIVIUM_RESEED_PERIOD
     /\ tv'.bits <= 8 * TRIVIUM_RESEED_PERIOD]_vars

\* The state after k counter steps, and the key stream of n whole blocks that
\* k = 1 .. n give under the key K
RECURSIVE StepsOf(_, _)
StepsOf(V, k) == IF k = 0 THEN V ELSE CTR_DRBG_INCR32(StepsOf(V, k - 1), 1)

RECURSIVE KeyStream(_, _, _)
KeyStream(K, V, n) ==
  IF n = 0 THEN <<>>
  ELSE KeyStream(K, V, n - 1) \o aes256_encr_block(K, StepsOf(V, n))

BlocksFor(out_len) == (out_len + AES_BLOCK_SIZE - 1) \div AES_BLOCK_SIZE

CtrGenerated ==
  /\ drbg.alg = "ctr"
  /\ call.op = "generate"
  /\ call.ret = SUCCESS

\* C21: a successful ctr_drbg_generate is, in this order: an update with the
\* additional input only when its length is positive; ceil(out_len / block)
\* increment-then-encrypt blocks, the last one truncated, none at all for
\* out_len = 0 and no extra one for a whole number of blocks; an update with
\* the additional input in every case; reseed_counter + 1.
C21_GenerateStepOrder ==
  CtrGenerated =>
    LET addl == Bytes(call.addl)
        n == BlocksFor(call.output.len)
        s1 == IF call.addl.len > 0 THEN ctr_drbg_update(call.on, addl).st
              ELSE call.on
        s2 == [s1 EXCEPT !.V = StepsOf(s1.V, n)]
        s3 == ctr_drbg_update(s2, addl).st
    IN /\ call.out = SubSeq(KeyStream(s1.K, s1.V, n), 1, call.output.len)
       /\ drbg = [s3 EXCEPT !.reseed_counter = call.on.reseed_counter + 1]

\* A successful generate with additional input whose last block is truncated
C21_Witness ==
  /\ CtrGenerated
  /\ call.addl.len > 0
  /\ call.output.len > AES_BLOCK_SIZE
  /\ call.output.len % AES_BLOCK_SIZE # 0
  /\ Len(call.out) = call.output.len

\* A byte string read as a big-endian integer, and the integer x written as
\* size bytes in big-endian order
RECURSIVE BigEndian(_)
BigEndian(bytes) ==
  IF bytes = <<>> THEN 0
  ELSE 256 * BigEndian(SubSeq(bytes, 1, Len(bytes) - 1)) + bytes[Len(bytes)]

AsBigEndian(x, size) ==
  SubSeq([i \in 1 .. size |-> (x \div (256 ^ (size - i))) % 256], 1, size)

\* V after k counter steps: k added to its last word modulo 2^(8 * word size),
\* the bytes before the word kept
Counted(V, k) ==
  LET first == AES_BLOCK_SIZE - CTR_DRBG_WORD_SIZE
      word == BigEndian(SubSeq(V, first + 1, AES_BLOCK_SIZE))
  IN SubSeq(V, 1, first)
       \o AsBigEndian((word + k) % (256 ^ CTR_DRBG_WORD_SIZE),
                      CTR_DRBG_WORD_SIZE)

RECURSIVE CountedStream(_, _, _)
CountedStream(K, V, n) ==
  IF n = 0 THEN <<>>
  ELSE CountedStream(K, V, n - 1) \o aes256_encr_block(K, Counted(V, n))

\* K and V after an update that makes exactly three counter steps
ThreeStepUpdate(K, V, data) ==
  LET temp == XorInto(CountedStream(K, V, 3), data)
  IN [K |-> SubSeq(temp, 1, AES256_KEY_SIZE),
      V |-> SubSeq(temp, AES256_KEY_SIZE + 1, CTR_DRBG_ENTROPY_LEN)]

CtrSucceeded(op) ==
  /\ drbg.alg = "ctr"
  /\ call.op = op
  /\ call.ret = SUCCESS

\* C22: every counter step of CTR_DRBG adds 1 to the last word of V read as a
\* big-endian integer, modulo 2^(8 * word size), and leaves the bytes of V
\* before the word alone; an update makes exactly three steps and a generate
\* one per output block.
C22_CounterInLastWord ==
  LET seed == XorInto(Bytes(call.entropy), Bytes(call.addl))
      addl == Bytes(call.addl)
      n == BlocksFor(call.output.len)
      zeroK == Filled(AES256_KEY_SIZE, 0)
      zeroV == Filled(AES_BLOCK_SIZE, 0)
      s0 == [K |-> call.on.K, V |-> call.on.V]
      s1 == IF call.addl.len > 0 THEN ThreeStepUpdate(s0.K, s0.V, addl)
            ELSE s0
      KV == [K |-> drbg.K, V |-> drbg.V]
  IN /\ CtrSucceeded("init") => KV = ThreeStepUpdate(zeroK, zeroV, seed)
     /\ CtrSucceeded("reseed") => KV = ThreeStepUpdate(s0.K, s0.V, seed)
     /\ CtrSucceeded("generate") =>
          /\ call.out
               = SubSeq(CountedStream(s1.K, s1.V, n), 1, call.output.len)
          /\ KV = ThreeStepUpdate(s1.K, Counted(s1.V, n), addl)

\* A successful reseed on a V whose last word is all ones: the counter wraps
\* to 0 while the byte before the word is not 0
C22_Witness ==
  /\ CtrSucceeded("reseed")
  /\ \A i \in 1 .. AES_BLOCK_SIZE : call.on.V[i] = 255

\* Pairwise coprime moduli whose product exceeds 2^(8 * HASH_DRBG_SEED_LEN + 1):
\* two integers below the product are equal iff they agree modulo each
Moduli == {32749, 32719, 32717, 32713, 32707}

\* The big-endian integer that bytes spell, modulo p
RECURSIVE Residue(_, _)
Residue(bytes, p) ==
  IF bytes = <<>> THEN 0
  ELSE (256 * Residue(SubSeq(bytes, 1, Len(bytes) - 1), p)
          + bytes[Len(bytes)]) % p

\* sum = (V + N) mod 2^(8 * HASH_DRBG_SEED_LEN), as big-endian integers:
\* V + N = sum + c * 2^(8 * HASH_DRBG_SEED_LEN) for a carry c
IsSumMod(V, N, sum) ==
  LET modulus == <<1>> \o Filled(HASH_DRBG_SEED_LEN, 0)
  IN /\ Len(sum) = HASH_DRBG_SEED_LEN
     /\ \A i \in 1 .. HASH_DRBG_SEED_LEN : sum[i] \in Byte
     /\ \E c \in {0, 1} :
          \A p \in Moduli :
            (Residue(V, p) + Residue(N, p)) % p
              = (Residue(sum, p) + c * Residue(modulus, p)) % p

\* C23: hash_drbg_add_int(V, N, len) leaves V = (V + N) mod
\* 2^(8 * HASH_DRBG_SEED_LEN), V and N read as big-endian integers, for every
\* V and every N of length 1 .. HASH_DRBG_SEED_LEN: carries pass through all
\* more significant bytes and the carry out of the first byte is dropped.
C23_AddIntIsSumMod ==
  call.op = "add_int" => IsSumMod(call.on.V, call.out, drbg.V)

\* An addition of a one-byte N whose carry runs through every byte of V and
\* out of it
C23_Witness ==
  /\ call.op = "add_int"
  /\ call.out = <<255>>
  /\ call.on.V = Filled(HASH_DRBG_SEED_LEN, 255)
  /\ drbg.V = Filled(HASH_DRBG_SEED_LEN - 1, 0) \o <<254>>

\* C24: with bStrictChecksEnabled FALSE a slow poll returns FALSE only when
\* the jitter RNG delivered nothing; when another probe fails (a library that
\* cannot be loaded, an NtQuerySystemInformation query, the statistics, the
\* shared memory) the probe is skipped and the slow poll returns TRUE.
C24_OnlyJitterFailsSlowPoll ==
  \A c \in Callers :
    (loc[c].probes # <<>> /\ ~bStrictChecksEnabled)
      => LET env == loc[c].probes[1]
         IN /\ SlowPollReturned(c, "FALSE") => ~env.jent
            /\ env.jent => SlowPollReturned(c, "TRUE")

\* C25: the capture of user events ends after exactly USER_EVENTS_LIMIT
\* events: the callback that adds the last of them requests the end of the
\* message loop, no event is added to the pool after it, and the loop ends
\* with a mix of the pool and the event counter back at 0.
C25_CaptureEndsAtLimit ==
  [][\A c \in Callers :
       /\ pc'[c] = "f_msgloop"
            => /\ nUserEventsAdded' <= USER_EVENTS_LIMIT
               /\ nUserEventsAdded' = USER_EVENTS_LIMIT => loc'[c].quit
       /\ (pc[c] = "f_msgloop" /\ pc'[c] = "f_fp1")
            => /\ nUserEventsAdded = USER_EVENTS_LIMIT
               /\ nUserEventsAdded' = 0
               /\ pRandPool' = RandPoolMix(pRandPool)]_vars

\* The step in which RandPoolInit of caller c returns TRUE
StartSucceeds(c) ==
  /\ loc'[c].calls = loc[c].calls + 1
  /\ loc'[c].op = "init"
  /\ loc'[c].ret = "TRUE"
  /\ pc'[c] = "idle"

\* C26: whatever starts and stops came before, failed starts included,
\* bTerminateFastPollThread is FALSE when a start returns TRUE, and the
\* fast-poll thread leaves its loop only while a stop waits for it.
C26_StartLeavesStopFlagClear ==
  [][/\ \A c \in Callers : StartSucceeds(c) => ~bTerminateFastPollThread'
     /\ (fpPc = "in_cs" /\ fpPc' = "exited")
          => \E c \in Callers : pc[c] = "stop_wait"]_vars

\* C27: entries to and exits from randCritSec are balanced on every path:
\* a caller that is not inside RandFetchBytes (returned with TRUE or FALSE,
\* or in RandCleanStop after its Enter .. Leave pair) does not own it, the
\* fast-poll thread owns it only between the Enter and the Leave of one
\* iteration and not after _endthreadex, and it is free when nobody is inside.
C27_CriticalSectionBalanced ==
  alive =>
    /\ randCritSec.owner = NULL <=> randCritSec.count = 0
    /\ \A c \in Callers :
         randCritSec.owner = c
           => /\ loc[c].op = "fetch"
              /\ pc[c] \notin {"idle", "f_enter"}
    /\ randCritSec.owner = FP => fpPc = "in_cs"

\* A fetch has left through its failure exit and the fast-poll thread is
\* between two iterations: the critical section is free
C27_Witness ==
  /\ alive
  /\ \E c \in Callers :
       /\ pc[c] = "idle"
       /\ loc[c].op = "fetch"
       /\ SlowPollReturned(c, "FALSE")
  /\ fpPc = "ready"
  /\ nPolls > 0
  /\ randCritSec = FreeCritSec

\* C28: ctr_drbg_generate does not return SUCCESS on a state that
\* ctr_drbg_clear has wiped, or that was never instantiated, before
\* ctr_drbg_init has succeeded on it again; no output is made from the
\* all-zero key and counter that clear leaves.
C28_NoGenerateFromClearedState ==
  [][(drbg.alg = "ctr" /\ ~instantiated /\ call' # call
      /\ call'.op = "generate")
       => call'.ret # SUCCESS]_vars

\* The last call was hash_drbg_generate and it got as far as Hashgen
HashgenReached ==
  /\ drbg.alg = "hash"
  /\ call.op = "generate"
  /\ DRBG_STATE_IS_INIT(call.on)
  /\ ValidGenArgs(call.output, call.addl)
  /\ call.on.reseed_counter <= DRBG_MAX_RESEED_CNT
  /\ call.fault.at # "generate"

\* C29: hash_drbg_generate returns SUCCESS only when Hashgen has written all
\* output_len bytes; when Hashgen fails, generate returns an error status and
\* leaves V and reseed_counter as they were.
C29_GenerateNeedsHashgen ==
  HashgenReached =>
    LET good == hash_drbg_generate(call.on, call.output, call.addl, "none")
    IN /\ call.ret = ERR_DRBG_SUCCESS
            => /\ call.out = good.out
               /\ Len(call.out) = call.output.len
       /\ call.fault.at = "hashgen"
            => /\ call.ret # ERR_DRBG_SUCCESS
               /\ drbg.V = call.on.V
               /\ drbg.reseed_counter = call.on.reseed_counter

\* The last call was a Hash_DRBG init or reseed that gave V a new value
HashSeedModifiedV ==
  /\ drbg.alg = "hash"
  /\ call.op \in {"init", "reseed"}
  /\ drbg.V # call.on.V

\* C30: in every Hash_DRBG state whose instantiated flag is set, whatever
\* calls led to it (those that fail part-way included), C is
\* Hash_df(0x00 || V0, SEED_LEN) for the V0 that the most recent init or
\* reseed to modify V gave it: right after such a call V0 is V itself, and a
\* generate call, which moves V only, leaves C as it was.
C30_ConstantFollowsSeed ==
  (drbg.alg = "hash" /\ instantiated /\ DRBG_STATE_IS_INIT(drbg)) =>
    /\ HashSeedModifiedV
         => drbg.C = hash_drbg_df(<<0>> \o drbg.V, HASH_DRBG_SEED_LEN)
    /\ call.op = "generate" => drbg.C = call.on.C

====
